---- MODULE Spec2Model ----
(***************************************************************************)
(* Network connectivity test orchestrator of cluster-probe (package        *)
(* nettest): NetworkTest.Run and the operations it calls, run against a    *)
(* model of the cluster control plane (namespace lifecycle, pods, nodes).  *)
(*                                                                         *)
(* Names (node names, pod names) are sequences of byte values, so that     *)
(* sanitizeNodeName is computed byte by byte as the code computes it.      *)
(***************************************************************************)
EXTENDS Integers, Sequences, FiniteSets, TLC

(***************************************************************************)
(* Bounds of the model.                                                    *)
(***************************************************************************)
\* Largest number of remote-exec calls of one run that fail while the
\* caller's context is live (a cancelled context fails every call).
MaxExecFail == 1
\* The longest result collection handed to convertNetworkReport on its own.
MaxResults == 3

(***************************************************************************)
(* Program constants.                                                      *)
(***************************************************************************)
\* "nettest-"
testPodPrefix == <<110, 101, 116, 116, 101, 115, 116, 45>>
testListenPort == 8080
kubeletPort == 10250
dnsPort == 53
\* len(result) > 50 in sanitizeNodeName
maxSanitizedLen == 50

\* The five fixed test types, in the order RunPodTests runs them.
TestTypes == <<"coredns", "dns", "external-tcp", "kubelet", "pod-to-pod">>

(***************************************************************************)
(* Sequence helpers.                                                       *)
(***************************************************************************)
Range(s) == {s[i] : i \in DOMAIN s}

(***************************************************************************)
(* sanitizeNodeName: bytes a-z, 0-9 and '-' are kept, A-Z are lowered      *)
(* (c+32), every other byte becomes '-', and the result is cut to 50.      *)
(***************************************************************************)
sanitizeByte(c) ==
    IF (c >= 97 /\ c <= 122) \/ (c >= 48 /\ c <= 57) \/ c = 45
    THEN c
    ELSE IF c >= 65 /\ c <= 90 THEN (c + 32) % 256 ELSE 45

sanitizeNodeName(name) ==
    LET result == [i \in 1..Len(name) |-> sanitizeByte(name[i])]
    IN  IF Len(result) > maxSanitizedLen
        THEN SubSeq(result, 1, maxSanitizedLen)
        ELSE result

\* podName := testPodPrefix + sanitizeNodeName(node.Name)
PodNameFor(nodeName) == testPodPrefix \o sanitizeNodeName(nodeName)

(***************************************************************************)
(* The cluster's nodes: corev1.Node objects with the fields the code       *)
(* reads (Name, Status.Conditions, Status.Addresses).                      *)
(***************************************************************************)
Cond(t, s) == [Type |-> t, Status |-> s]
Addr(t, a) == [Type |-> t, Address |-> a]

\* "node-a"
NameNodeA == <<110, 111, 100, 101, 45, 97>>
\* "node.a" (a valid DNS-subdomain node name)
NameNodeDotA == <<110, 111, 100, 101, 46, 97>>
\* "node-b"
NameNodeB == <<110, 111, 100, 101, 45, 98>>
\* "node-c"
NameNodeC == <<110, 111, 100, 101, 45, 99>>
\* "node-d"
NameNodeD == <<110, 111, 100, 101, 45, 100>>
\* "node-e"
NameNodeE == <<110, 111, 100, 101, 45, 101>>
\* "node-u"
NameNodeU == <<110, 111, 100, 101, 45, 117>>

\* Ready, with two internal addresses after a hostname.
NodeA == [Name |-> NameNodeA,
          Conditions |-> <<Cond("MemoryPressure", "False"), Cond("Ready", "True")>>,
          Addresses |-> <<Addr("Hostname", "node-a"), Addr("InternalIP", "10.0.0.1"),
                          Addr("InternalIP", "fd00::1")>>]
\* Ready; its name differs from node-a's in one byte.
NodeDotA == [Name |-> NameNodeDotA,
             Conditions |-> <<Cond("Ready", "True")>>,
             Addresses |-> <<Addr("InternalIP", "10.0.0.2")>>]
\* Ready.
NodeB == [Name |-> NameNodeB,
          Conditions |-> <<Cond("Ready", "True")>>,
          Addresses |-> <<Addr("InternalIP", "10.0.0.6")>>]
\* Ready, under disk pressure, without an internal address.
NodeE == [Name |-> NameNodeE,
          Conditions |-> <<Cond("Ready", "True"), Cond("DiskPressure", "True")>>,
          Addresses |-> <<Addr("ExternalIP", "203.0.113.5")>>]
\* Not ready (Ready is False, another condition is True).
NodeC == [Name |-> NameNodeC,
          Conditions |-> <<Cond("MemoryPressure", "True"), Cond("Ready", "False")>>,
          Addresses |-> <<Addr("InternalIP", "10.0.0.3")>>]
\* No Ready condition reported.
NodeD == [Name |-> NameNodeD,
          Conditions |-> <<Cond("DiskPressure", "True")>>,
          Addresses |-> <<Addr("InternalIP", "10.0.0.4")>>]
\* Ready is Unknown.
NodeU == [Name |-> NameNodeU,
          Conditions |-> <<Cond("Ready", "Unknown")>>,
          Addresses |-> <<Addr("InternalIP", "10.0.0.5")>>]

NodeUniverse == <<NodeA, NodeDotA, NodeB, NodeE, NodeC, NodeD, NodeU>>

\* The node lists the cluster reports in the runs modelled.
NodeLists ==
    { <<>>,
      <<NodeC, NodeD, NodeU>>,
      <<NodeU, NodeA>>,
      <<NodeA, NodeC, NodeE>>,
      <<NodeA, NodeDotA>>,
      <<NodeD, NodeB, NodeA, NodeU>> }

(***************************************************************************)
(* filterReadyNodes: a node is kept, once, iff one of its conditions has   *)
(* Type Ready and Status True.                                             *)
(***************************************************************************)
\* A test of the Status of any condition, whatever its Type.
MutHasReadyTrue(node) ==
    \E j \in DOMAIN node.Conditions : node.Conditions[j].Status = "True"

HasReadyTrue(node) ==
    \E j \in DOMAIN node.Conditions :
        node.Conditions[j].Type = "Ready" /\ node.Conditions[j].Status = "True"

filterReadyNodes(ns) == SelectSeq(ns, HasReadyTrue)

(***************************************************************************)
(* GetNodeInternalIPs: node name -> the first address of type InternalIP;  *)
(* a node without one has no entry.                                        *)
(***************************************************************************)
HasInternalIP(node) == \E j \in DOMAIN node.Addresses : node.Addresses[j].Type = "InternalIP"

FirstInternalIP(node) ==
    LET js == {j \in DOMAIN node.Addresses : node.Addresses[j].Type = "InternalIP"}
        j0 == CHOOSE j \in js : \A k \in js : j <= k
    IN  node.Addresses[j0].Address

GetNodeInternalIPs(ns) ==
    LET withIP == {i \in DOMAIN ns : HasInternalIP(ns[i])}
    IN  [nm \in {ns[i].Name : i \in withIP} |->
            FirstInternalIP(ns[CHOOSE i \in withIP : ns[i].Name = nm])]

(***************************************************************************)
(* kube-system as DiscoverCoreDNSPods reads it: for each of the three      *)
(* service names the Endpoints object (absent, or its subsets of           *)
(* addresses), and the pods of the namespace.                              *)
(***************************************************************************)
serviceNames == <<"kube-dns", "coredns", "rke2-coredns-rke2-coredns">>

NoEndpoints == [found |-> FALSE, subsets |-> <<>>]
Endpoints(subsets) == [found |-> TRUE, subsets |-> subsets]
SysPod(name, phase, ip) == [Name |-> name, Phase |-> phase, PodIP |-> ip]

\* "coredns"
StrCoreDNS == <<99, 111, 114, 101, 100, 110, 115>>
\* "kube-dns"
StrKubeDNS == <<107, 117, 98, 101, 45, 100, 110, 115>>
\* "rke2-coredns-x"
NameRke2CoreDNS == <<114, 107, 101, 50, 45>> \o StrCoreDNS \o <<45, 120>>
\* "kube-dns-y"
NameKubeDNSPod == StrKubeDNS \o <<45, 121>>
\* "etcd-0"
NameEtcd == <<101, 116, 99, 100, 45, 48>>
\* "coredn" (shorter than either component)
NameShort == <<99, 111, 114, 101, 100, 110>>

KubeSystems ==
    { \* kube-dns has two addresses; coredns has another one
      [endpoints |-> <<Endpoints(<< <<"10.96.0.10", "10.96.0.11">> >>),
                       Endpoints(<< <<"10.96.0.20">> >>), NoEndpoints>>,
       pods |-> <<SysPod(NameRke2CoreDNS, "Running", "10.244.9.1")>>],
      \* kube-dns absent, coredns without addresses, rke2 has one address
      [endpoints |-> <<NoEndpoints, Endpoints(<< <<>> >>),
                       Endpoints(<< <<>>, <<"10.96.0.30">> >>)>>,
       pods |-> <<SysPod(NameKubeDNSPod, "Running", "10.244.9.2")>>],
      \* no service has an address; one DNS pod qualifies
      [endpoints |-> <<Endpoints(<<>>), NoEndpoints, NoEndpoints>>,
       pods |-> <<SysPod(NameEtcd, "Running", "10.244.9.3"),
                  SysPod(NameRke2CoreDNS, "Pending", "10.244.9.4"),
                  SysPod(NameKubeDNSPod, "Running", ""),
                  SysPod(NameShort, "Running", "10.244.9.6"),
                  SysPod(NameKubeDNSPod, "Running", "10.244.9.5")>>],
      \* nothing to discover
      [endpoints |-> <<NoEndpoints, NoEndpoints, NoEndpoints>>,
       pods |-> <<SysPod(NameEtcd, "Running", "10.244.9.3")>>] }

\* containsSubstring / contains / containsDNSComponent
containsSubstring(s, substr) ==
    \E i \in 0..(Len(s) - Len(substr)) : SubSeq(s, i + 1, i + Len(substr)) = substr

contains(s, substr) ==
    Len(s) >= Len(substr) /\ (s = substr \/ (Len(s) > 0 /\ containsSubstring(s, substr)))

containsDNSComponent(name) == contains(name, StrCoreDNS) \/ contains(name, StrKubeDNS)

\* The addresses of an Endpoints object, subset by subset.
RECURSIVE Flatten(_)
Flatten(ss) == IF ss = <<>> THEN <<>> ELSE Head(ss) \o Flatten(Tail(ss))

\* The service loop of DiscoverCoreDNSPods from position k with dnsIPs
\* as collected so far: okGet is the set of service positions whose
\* Endpoints Get returns without error. The loop returns dnsIPs as soon as
\* it is not empty after a service; its value after the last service is
\* the dnsIPs the pod scan goes on with.
RECURSIVE MutServiceScan(_, _, _, _)
MutServiceScan(ks, okGet, k, dnsIPs) ==
    IF k > Len(serviceNames) THEN dnsIPs
    ELSE IF k \notin okGet \/ ~ks.endpoints[k].found
         THEN MutServiceScan(ks, okGet, k + 1, dnsIPs)
    ELSE MutServiceScan(ks, okGet, k + 1, dnsIPs \o Flatten(ks.endpoints[k].subsets))

RECURSIVE ServiceScan(_, _, _, _)
ServiceScan(ks, okGet, k, dnsIPs) ==
    IF k > Len(serviceNames) THEN dnsIPs
    ELSE IF k \notin okGet \/ ~ks.endpoints[k].found
         THEN ServiceScan(ks, okGet, k + 1, dnsIPs)
    ELSE LET collected == dnsIPs \o Flatten(ks.endpoints[k].subsets)
         IN  IF Len(collected) > 0 THEN collected
             ELSE ServiceScan(ks, okGet, k + 1, collected)

DNSPodMatches(pod) ==
    containsDNSComponent(pod.Name) /\ pod.Phase = "Running" /\ pod.PodIP # ""

\* The loop over the pods of kube-system, appending to dnsIPs.
RECURSIVE PodScan(_, _)
PodScan(pods, dnsIPs) ==
    IF pods = <<>> THEN dnsIPs
    ELSE PodScan(Tail(pods),
                 IF DNSPodMatches(Head(pods)) THEN Append(dnsIPs, Head(pods).PodIP)
                 ELSE dnsIPs)

\* DiscoverCoreDNSPods: (addresses, error); okList says whether the pod List
\* of kube-system returns without error.
MutDiscoverCoreDNSPods(ks, okGet, okList) ==
    LET bySvc == ServiceScan(ks, okGet, 1, <<>>)
    IN  IF Len(bySvc) > 0 THEN [ips |-> bySvc, err |-> "nil"]
        ELSE IF ~okList THEN [ips |-> <<>>, err |-> "failed to list kube-system pods"]
        ELSE [ips |-> PodScan(ks.pods, bySvc), err |-> "nil"]

DiscoverCoreDNSPods(ks, okGet, okList) ==
    LET bySvc == ServiceScan(ks, okGet, 1, <<>>)
    IN  IF Len(bySvc) > 0 THEN [ips |-> bySvc, err |-> "nil"]
        ELSE IF ~okList THEN [ips |-> <<>>, err |-> "failed to list kube-system pods"]
        ELSE LET byPod == PodScan(ks.pods, bySvc)
             IN  IF Len(byPod) = 0 THEN [ips |-> <<>>, err |-> "no CoreDNS pods found"]
                 ELSE [ips |-> byPod, err |-> "nil"]

(***************************************************************************)
(* State.                                                                  *)
(*   Control plane: nodes, kubeSystem, ns (the namespace                   *)
(*   cluster-probe-nettest: absent, active or terminating), clusterPods    *)
(*   (pod name -> pod, the pods of that namespace).                        *)
(*   Caller: ctxCancelled (the context handed to Run).                     *)
(*   Run: pc, cleanup (the CleanupTestPods call in progress), readyNodes,  *)
(*   testPods, idx (the index of the loop in progress), coreDNSIPs,        *)
(*   nodeIPs, tasks (the goroutines of RunAllTests), results (the shared   *)
(*   collection), report, ret (what Run returns).                          *)
(*   History: execFails, created (pods this run created), cleanupLog (the  *)
(*   CleanupTestPods calls made), listened (pods sent the listener         *)
(*   command), prov (the outcome of an earlier invocation of the           *)
(*   provisioning operations on the same cluster).                         *)
(*   The command: exitCode, the status the process has exited with, and    *)
(*   written, the outcome of writer.Write ("none" while it is not called). *)
(*   API requests: requests, the requests Run has sent to the API server   *)
(*   (verb, resource, and the namespace they name or act in).              *)
(*   The check engine: engine, an Engine with its registered checks and    *)
(*   its config, and the call of Engine.Run in progress on it.             *)
(*   Calls checked on their own: wait, the clock and the polls of a call   *)
(*   of WaitForPodsReady; discovered, a call of DiscoverCoreDNSPods with   *)
(*   the outcomes of its API requests and what it returned; checkResults,  *)
(*   what convertNetworkReport returned; cleanupCall, a call of            *)
(*   CleanupTestPods with its Delete, its poll and what it returned.       *)
(***************************************************************************)
VARIABLES nodes, kubeSystem, ns, clusterPods, ctxCancelled,
          pc, cleanup, readyNodes, testPods, idx, coreDNSIPs, nodeIPs,
          tasks, results, report, ret,
          execFails, created, cleanupLog, listened, prov,
          exitCode, written,
          requests, engine,
          wait, discovered, checkResults, cleanupCall

envVars == <<nodes, kubeSystem, ns, clusterPods, ctxCancelled>>
runVars == <<pc, cleanup, readyNodes, testPods, idx, coreDNSIPs, nodeIPs,
             tasks, results, report, ret>>
histVars == <<execFails, created, cleanupLog, listened, prov>>
cliVars == <<exitCode, written>>
callVars == <<wait, discovered, checkResults, cleanupCall>>
vars == <<envVars, runVars, histVars, cliVars, requests, engine, callVars>>

\* No engine has been built.
NoEngine == [checks |-> <<>>, config |-> [nil |-> TRUE], i |-> 0, go |-> <<>>, out |-> <<>>,
             results |-> <<>>, called |-> {}, configured |-> {},
             ret |-> [returned |-> FALSE, results |-> <<>>, err |-> "nil"]]

\* The exit statuses of the command, and the value of exitCode while the
\* process runs.
ExitOK == 0
ExitWarning == 1
ExitCritical == 2
ExitNoConnect == 3
ExitInternalErr == 4
NotExited == -1

\* What CleanupTestPods returns when it returns without polling.
MutCleanupReturn(status) ==
    IF status # "nil" THEN "failed to delete namespace" ELSE "nil"

CleanupReturn(status) ==
    IF status # "nil" /\ status # "NotFound" THEN "failed to delete namespace" ELSE "nil"

\* A call of CleanupTestPods whose Delete answered status: the
\* propagation policy it asked for, whether a Get of the poll has answered
\* anything but NotFound (polled) or an error (getError), whether the poll
\* ended on NotFound (confirmed), and what the call returned ("pending"
\* while it polls).
CleanupCall(site, ctx, ok, status) ==
    [site |-> site, ctx |-> ctx, issued |-> ok, propagation |-> "Foreground",
     status |-> status, polled |-> FALSE, getError |-> FALSE, confirmed |-> FALSE,
     err |-> IF status = "nil" THEN "pending" ELSE CleanupReturn(status)]


NoCleanupCall == [CleanupCall("none", "none", FALSE, "nil") EXCEPT !.status = "none"]

\* No call of WaitForPodsReady, and none of DiscoverCoreDNSPods.
NoWait == [now |-> 0, polls |-> <<>>]
NoDiscovery == [called |-> FALSE, okGet |-> {}, okList |-> FALSE, ips |-> <<>>, err |-> "nil"]

NoProv == [round |-> 0, err |-> "nil", testPods |-> <<>>, pods |-> {}]
NoCleanup == [site |-> "none", ctx |-> "none"]
NoRet == [returned |-> FALSE, hasReport |-> FALSE, err |-> "nil", subject |-> <<>>]
\* A return value that does not carry the name the error message is built
\* with.
MutReturn(hasReport, err, subject) ==
    [returned |-> TRUE, hasReport |-> hasReport, err |-> err, subject |-> <<>>]

Return(hasReport, err, subject) ==
    [returned |-> TRUE, hasReport |-> hasReport, err |-> err, subject |-> subject]
EmptyReport ==
    [NodeCount |-> 0, PodCount |-> 0, TestResults |-> <<>>,
     Summary |-> [Total |-> 0, Passed |-> 0, Failed |-> 0]]

(***************************************************************************)
(* The control plane.                                                      *)
(***************************************************************************)
\* The pod IP the node's network plugin assigns to the pod on a node.
AssignedPodIP(nodeName) ==
    LET k == CHOOSE j \in DOMAIN NodeUniverse : NodeUniverse[j].Name = nodeName
    IN  <<"10.244.1.2", "10.244.2.2", "10.244.3.2", "10.244.4.2", "10.244.5.2",
          "10.244.6.2", "10.244.7.2">>[k]

\* A pod as the API server stores it on creation.
NewPod(nodeName) ==
    [node |-> nodeName, phase |-> "Pending", ready |-> FALSE, ip |-> ""]

\* A pod left in the namespace by an earlier, aborted run.
StalePods == [n \in {PodNameFor(NameNodeA)} |->
                 [node |-> NameNodeA, phase |-> "Running", ready |-> TRUE,
                  ip |-> AssignedPodIP(NameNodeA)]]
NoPods == [n \in {} |-> NewPod(<<>>)]

\* The requests of Run to the API server: the verb, the resource, and the
\* namespace the request names (a request on the namespace itself) or acts
\* in ("" for the cluster-scoped nodes).
testNamespace == "cluster-probe-nettest"

NamespaceRequest(verb) ==
    [verb |-> verb, resource |-> "namespaces", namespace |-> testNamespace]

MutPodsRequest(verb, resource) ==
    [verb |-> verb, resource |-> resource,
     namespace |-> IF resource = "pods/exec" THEN "kube-system" ELSE testNamespace]

PodsRequest(verb, resource) ==
    [verb |-> verb, resource |-> resource, namespace |-> testNamespace]

KubeSystemRequest(verb, resource) ==
    [verb |-> verb, resource |-> resource, namespace |-> "kube-system"]

NodesRequest(verb) == [verb |-> verb, resource |-> "nodes", namespace |-> ""]

\* The namespace before the run: never created, left behind (with or
\* without a pod), or still being deleted.
InitialNamespaces ==
    { [ns |-> "absent", pods |-> NoPods],
      [ns |-> "active", pods |-> NoPods],
      [ns |-> "active", pods |-> StalePods],
      [ns |-> "terminating", pods |-> StalePods] }

\* An API call made with a context: it may fail for a reason of the
\* server's or the network's, and fails when its context is cancelled.
ApiOutcomes(ctx) == IF ctx = "caller" /\ ctxCancelled THEN {FALSE} ELSE BOOLEAN

\* Namespaces().Create: a namespace that exists, terminating or not, answers
\* AlreadyExists.
NamespaceCreate(ok) ==
    IF ~ok THEN [status |-> "error", ns |-> ns]
    ELSE IF ns = "absent" THEN [status |-> "created", ns |-> "active"]
    ELSE [status |-> "AlreadyExists", ns |-> ns]

\* Namespaces().Delete with foreground propagation: the namespace turns
\* terminating; its content and then the namespace itself are removed by
\* the namespace controller.
NamespaceDelete(ok) ==
    IF ~ok THEN [status |-> "error", ns |-> ns]
    ELSE IF ns = "absent" THEN [status |-> "NotFound", ns |-> ns]
    ELSE [status |-> "nil", ns |-> "terminating"]

\* Pods(testNamespace).Create: refused unless the namespace is active.
PodCreate(ok, podName) ==
    IF ~ok THEN "error"
    ELSE IF ns = "absent" THEN "NotFound"
    ELSE IF ns = "terminating" THEN "Forbidden"
    ELSE IF podName \in DOMAIN clusterPods THEN "AlreadyExists"
    ELSE "created"

Init ==
    /\ nodes \in NodeLists
    /\ kubeSystem \in KubeSystems
    /\ \E n0 \in InitialNamespaces : ns = n0.ns /\ clusterPods = n0.pods
    /\ ctxCancelled = FALSE
    /\ pc = "EnsureNamespace"
    /\ cleanup = NoCleanup
    /\ readyNodes = <<>>
    /\ testPods = <<>>
    /\ idx = 0
    /\ coreDNSIPs = <<>>
    /\ nodeIPs = GetNodeInternalIPs(<<>>)
    /\ tasks = <<>>
    /\ results = <<>>
    /\ report = EmptyReport
    /\ ret = NoRet
    /\ execFails = 0
    /\ created = {}
    /\ cleanupLog = <<>>
    /\ listened = {}
    /\ prov = NoProv
    /\ exitCode = NotExited
    /\ written = "none"
    /\ requests = {}
    /\ engine = NoEngine
    /\ wait = NoWait
    /\ discovered = NoDiscovery
    /\ checkResults = <<>>
    /\ cleanupCall = NoCleanupCall

(***************************************************************************)
(* Environment actions.                                                    *)
(***************************************************************************)
\* The caller cancels the context it handed to Run.
CancelCtx ==
    /\ pc # "done"
    /\ ~ctxCancelled
    /\ ctxCancelled' = TRUE
    /\ UNCHANGED <<callVars, engine, nodes, kubeSystem, ns, clusterPods, runVars, histVars, cliVars, requests>>

\* The namespace controller removes the content of the terminating
\* namespace.
NsRemovePods ==
    /\ ns = "terminating"
    /\ DOMAIN clusterPods # {}
    /\ clusterPods' = NoPods
    /\ UNCHANGED <<callVars, engine, nodes, kubeSystem, ns, ctxCancelled, runVars, histVars, cliVars, requests>>

\* The namespace controller removes the emptied namespace.
NsFinalize ==
    /\ ns = "terminating"
    /\ DOMAIN clusterPods = {}
    /\ ns' = "absent"
    /\ UNCHANGED <<callVars, engine, nodes, kubeSystem, clusterPods, ctxCancelled, runVars, histVars, cliVars, requests>>

\* The kubelet starts a pending pod (it gets its IP), then its container
\* turns ready.
PodProgress ==
    /\ ns = "active"
    /\ \E n \in DOMAIN clusterPods :
          \/ /\ clusterPods[n].phase = "Pending"
             /\ clusterPods' = [clusterPods EXCEPT ![n].phase = "Running",
                                    ![n].ip = AssignedPodIP(clusterPods[n].node)]
          \/ /\ clusterPods[n].phase = "Running"
             /\ ~clusterPods[n].ready
             /\ clusterPods' = [clusterPods EXCEPT ![n].ready = TRUE]
    /\ UNCHANGED <<callVars, engine, nodes, kubeSystem, ns, ctxCancelled, runVars, histVars, cliVars, requests>>

(***************************************************************************)
(* CleanupTestPods, called from three places of Run (site): before the     *)
(* node list ("pre"), after a failed CreateTestPods ("createfail"), and    *)
(* from the deferred function ("defer").                                   *)
(***************************************************************************)
AfterCleanup(site) == IF site = "pre" THEN "ListNodes" ELSE "done"

\* The Delete request. An error other than NotFound, and NotFound, both
\* return at once; an accepted delete goes on to poll.
CleanupDelete ==
    /\ pc = "CleanupDelete"
    /\ \E ok \in ApiOutcomes(cleanup.ctx) :
          LET d == NamespaceDelete(ok) IN
          /\ ns' = d.ns
          /\ cleanupLog' = Append(cleanupLog,
                 [site |-> cleanup.site, ctx |-> cleanup.ctx, issued |-> ok])
          /\ IF d.status = "nil"
             THEN pc' = "CleanupPoll" /\ cleanup' = cleanup
             ELSE pc' = AfterCleanup(cleanup.site) /\ cleanup' = NoCleanup
    /\ UNCHANGED <<callVars, engine, nodes, kubeSystem, clusterPods, ctxCancelled, readyNodes, testPods,
                   idx, coreDNSIPs, nodeIPs, tasks, results, report, ret,
                   execFails, created, listened, prov, cliVars>>
    /\ requests' = requests \cup {NamespaceRequest("delete")}

\* The poll after an accepted delete ends when a Get answers NotFound, or
\* when the bound elapses or the context is cancelled; either way
\* CleanupTestPods returns nil.
CleanupPoll ==
    /\ pc = "CleanupPoll"
    /\ \/ \E ok \in ApiOutcomes(cleanup.ctx) : ok /\ ns = "absent"
       \/ TRUE
    /\ pc' = AfterCleanup(cleanup.site)
    /\ cleanup' = NoCleanup
    /\ UNCHANGED <<callVars, engine, envVars, readyNodes, testPods, idx, coreDNSIPs, nodeIPs, tasks,
                   results, report, ret, histVars, cliVars>>
    /\ requests' = requests \cup {NamespaceRequest("get")}

(***************************************************************************)
(* Run, up to the creation of the pods.                                    *)
(***************************************************************************)
\* n.EnsureNamespace(ctx); an error returns without any cleanup.
EnsureNamespace ==
    /\ pc = "EnsureNamespace"
    /\ \E ok \in ApiOutcomes("caller") :
          LET c == NamespaceCreate(ok) IN
          /\ ns' = c.ns
          /\ IF c.status = "error"
             THEN /\ ret' = Return(FALSE, "failed to create namespace", <<>>)
                  /\ pc' = "done"
                  /\ cleanup' = cleanup
             ELSE /\ ret' = ret
                  /\ pc' = "CleanupDelete"
                  /\ cleanup' = [site |-> "pre", ctx |-> "caller"]
    /\ UNCHANGED <<callVars, engine, nodes, kubeSystem, clusterPods, ctxCancelled, readyNodes, testPods,
                   idx, coreDNSIPs, nodeIPs, tasks, results, report, histVars, cliVars>>
    /\ requests' = requests \cup {NamespaceRequest("create")}

\* Nodes().List and filterReadyNodes; a List error and an empty ready list
\* both return without any cleanup.
ListNodes ==
    /\ pc = "ListNodes"
    /\ \E ok \in ApiOutcomes("caller") :
          IF ~ok
          THEN /\ ret' = Return(FALSE, "failed to list nodes", <<>>)
               /\ pc' = "done"
               /\ UNCHANGED <<readyNodes, report, idx>>
          ELSE LET ready == filterReadyNodes(nodes) IN
               /\ readyNodes' = ready
               /\ report' = [report EXCEPT !.NodeCount = Len(ready)]
               /\ IF Len(ready) = 0
                  THEN /\ ret' = Return(FALSE, "no ready nodes found in cluster", <<>>)
                       /\ pc' = "done"
                       /\ idx' = idx
                  ELSE /\ ret' = ret
                       /\ pc' = "CreateTestPods"
                       /\ idx' = 1
    /\ UNCHANGED <<callVars, engine, envVars, cleanup, testPods, coreDNSIPs, nodeIPs, tasks, results,
                   histVars, cliVars>>
    /\ requests' = requests \cup {NodesRequest("list")}

\* The errors of Pods().Create that CreateTestPods does not return: none,
\* and AlreadyExists (the pod is reused).
MutPodAccepted(status) == status = "created"

PodAccepted(status) == status \in {"created", "AlreadyExists"}

\* The pods of the namespace after a Create of podName on nodeName that
\* answered status.
PodsAfterCreate(status, podName, nodeName) ==
    IF status = "created"
    THEN [m \in DOMAIN clusterPods \cup {podName} |->
             IF m = podName THEN NewPod(nodeName) ELSE clusterPods[m]]
    ELSE clusterPods

\* The TestPod CreateTestPods appends for a node.
NewTestPod(node) ==
    [Name |-> PodNameFor(node.Name), NodeName |-> node.Name, PodIP |-> ""]

\* One iteration of the loop of CreateTestPods: the pod of readyNodes[idx].
\* AlreadyExists is reuse; any other error makes Run call
\* CleanupTestPods(ctx) and return.
CreateTestPods ==
    /\ pc = "CreateTestPods"
    /\ \E ok \in ApiOutcomes("caller") :
          LET node == readyNodes[idx]
              podName == PodNameFor(node.Name)
              status == PodCreate(ok, podName)
          IN  IF PodAccepted(status)
              THEN /\ testPods' = Append(testPods, NewTestPod(node))
                   /\ clusterPods' = PodsAfterCreate(status, podName, node.Name)
                   /\ created' = IF status = "created"
                                 THEN created \cup {[name |-> podName, node |-> node.Name]}
                                 ELSE created
                   /\ IF idx = Len(readyNodes)
                      THEN pc' = "WaitForPodsReady" /\ idx' = 1
                      ELSE pc' = pc /\ idx' = idx + 1
                   /\ UNCHANGED <<cleanup, ret>>
              ELSE /\ testPods' = <<>>
                   /\ ret' = Return(FALSE, "failed to create test pods", node.Name)
                   /\ pc' = "CleanupDelete"
                   /\ cleanup' = [site |-> "createfail", ctx |-> "caller"]
                   /\ UNCHANGED <<clusterPods, created, idx>>
    /\ UNCHANGED <<callVars, engine, nodes, kubeSystem, ns, ctxCancelled, readyNodes, coreDNSIPs, nodeIPs,
                   tasks, results, report, execFails, cleanupLog, listened, prov, cliVars>>
    /\ requests' = requests \cup {PodsRequest("create", "pods")}

(***************************************************************************)
(* WaitForPodsReady: the pods are polled in order, one at a time.          *)
(***************************************************************************)
\* A poll function that reads the phase only.
MutPodObservedReady(ok, podName) ==
    /\ ok
    /\ podName \in DOMAIN clusterPods
    /\ clusterPods[podName].phase = "Running"

\* What the poll function makes of one Get of the pod.
PodObservedReady(ok, podName) ==
    /\ ok
    /\ podName \in DOMAIN clusterPods
    /\ clusterPods[podName].phase = "Running"
    /\ clusterPods[podName].ready

\* A poll of testPods[idx] that finds it running and ready records its IP
\* and moves to the next pod; a poll that does not is repeated (no change
\* of state) until the timeout context is done, which returns the error
\* naming the pod and runs the deferred cleanup.
WaitForPodsReady ==
    /\ pc = "WaitForPodsReady"
    /\ LET pod == testPods[idx] IN
       \/ /\ \E ok \in ApiOutcomes("caller") : PodObservedReady(ok, pod.Name)
          /\ testPods' = [testPods EXCEPT ![idx].PodIP = clusterPods[pod.Name].ip]
          /\ IF idx = Len(testPods)
             THEN /\ pc' = "DiscoverCoreDNSPods"
                  /\ report' = [report EXCEPT !.PodCount = Len(testPods)]
                  /\ idx' = idx
             ELSE pc' = pc /\ idx' = idx + 1 /\ report' = report
          /\ UNCHANGED <<cleanup, ret>>
       \/ /\ ret' = Return(FALSE, "pods failed to become ready", pod.Name)
          /\ pc' = "CleanupDelete"
          /\ cleanup' = [site |-> "defer", ctx |-> "cleanup"]
          /\ UNCHANGED <<testPods, idx, report>>
    /\ UNCHANGED <<callVars, engine, envVars, readyNodes, coreDNSIPs, nodeIPs, tasks, results, histVars, cliVars>>
    /\ requests' = requests \cup {PodsRequest("get", "pods")}

(***************************************************************************)
(* Discovery of the DNS endpoints, the node IPs, and the listeners.        *)
(***************************************************************************)
\* nodeIPs := n.GetNodeInternalIPs(readyNodes)
MutNodeIPsOfRun == GetNodeInternalIPs(nodes)

NodeIPsOfRun == GetNodeInternalIPs(readyNodes)

\* coreDNSIPs, err := n.DiscoverCoreDNSPods(ctx) (the error is only
\* logged), then the node IPs.
Discover ==
    /\ pc = "DiscoverCoreDNSPods"
    /\ \E okGet \in SUBSET (1..Len(serviceNames)), okList \in ApiOutcomes("caller") :
          /\ ctxCancelled => okGet = {}
          /\ coreDNSIPs' = DiscoverCoreDNSPods(kubeSystem, okGet, okList).ips
          /\ requests' = requests \cup {KubeSystemRequest("get", "endpoints")}
                \cup (IF Len(ServiceScan(kubeSystem, okGet, 1, <<>>)) > 0 THEN {}
                      ELSE {KubeSystemRequest("list", "pods")})
    /\ nodeIPs' = NodeIPsOfRun
    /\ pc' = "StartListeners"
    /\ UNCHANGED <<callVars, engine, envVars, cleanup, readyNodes, testPods, idx, tasks, results, report,
                   ret, histVars, cliVars>>

\* StartListeners: the listener command is sent to every pod and its
\* outcome dropped.
StartListeners ==
    /\ pc = "StartListeners"
    /\ listened' = {testPods[i].Name : i \in DOMAIN testPods}
    /\ pc' = "RunAllTests"
    /\ UNCHANGED <<callVars, engine, envVars, cleanup, readyNodes, testPods, idx, coreDNSIPs, nodeIPs,
                   tasks, results, report, ret, execFails, created, cleanupLog, prov, cliVars>>
    /\ requests' = requests \cup {PodsRequest("create", "pods/exec")}

(***************************************************************************)
(* The probes. ExecInPod is the remote-exec collaborator: a call made      *)
(* with a cancelled context fails, any other call succeeds or fails.       *)
(***************************************************************************)
ExecInPod == 
    IF ctxCancelled THEN {"context canceled"}
    ELSE IF execFails < MaxExecFail THEN {"nil", "command terminated with exit code 1"}
    ELSE {"nil"}

Target(ip, port, name) == [ip |-> ip, port |-> port, name |-> name]

\* A result that does not count the end of the context as a failure.
MutTestResult(pod, testType, target, err) ==
    [SourceNode |-> pod.NodeName, SourcePod |-> pod.Name, TestType |-> testType,
     Target |-> target, Success |-> (err \in {"nil", "context canceled"}),
     Error |-> IF err # "nil" THEN err ELSE ""]

\* The TestResult every test function builds from the error of its exec.
TestResult(pod, testType, target, err) ==
    [SourceNode |-> pod.NodeName, SourcePod |-> pod.Name, TestType |-> testType,
     Target |-> target, Success |-> (err = "nil"),
     Error |-> IF err # "nil" THEN err ELSE ""]

\* The positions of allPods that TestPodToPod does not skip.
PodToPodTargets(sourcePod, allPods) ==
    {j \in DOMAIN allPods : allPods[j].Name # sourcePod.Name}

\* The node names of nodeIPs that TestKubeletConnectivity does not skip.
MutKubeletTargets(pod, ips) == DOMAIN ips

KubeletTargets(pod, ips) == {nm \in DOMAIN ips : nm # pod.NodeName}

\* A task is one goroutine of RunAllTests: the test function it is in
\* (step, a position of TestTypes; 6: about to append; 7: finished), the
\* position of that function's loop (k), the node names its kubelet loop
\* has not visited yet, and the pod's results so far. NewTask is the task
\* of pod p entering the function at step.
NewTask(p, step) ==
    [step |-> step, k |-> 0,
     todo |-> IF step = 4 THEN KubeletTargets(testPods[p], nodeIPs) ELSE {},
     res |-> <<>>]

\* A loop over dnsIPs that returns after its first address.
MutHasWork(p, step, k, todo) ==
    CASE step = 1 -> k < Len(coreDNSIPs) /\ k < 1
      [] step = 2 -> k < 1
      [] step = 3 -> k < 1
      [] step = 4 -> todo # {}
      [] step = 5 -> \E j \in PodToPodTargets(testPods[p], testPods) : j > k
      [] OTHER -> TRUE

\* Whether the test function at position step of TestTypes has a probe
\* left for a task at loop position k with todo left.
HasWork(p, step, k, todo) ==
    CASE step = 1 -> k < Len(coreDNSIPs)
      [] step = 2 -> k < 1
      [] step = 3 -> k < 1
      [] step = 4 -> todo # {}
      [] step = 5 -> \E j \in PodToPodTargets(testPods[p], testPods) : j > k
      [] OTHER -> TRUE

\* A sequencing in which a test function without a probe to make ends the
\* task.
MutNextStep(p, step) ==
    IF step > 5 THEN 6
    ELSE IF HasWork(p, step, 0, KubeletTargets(testPods[p], nodeIPs)) THEN step
    ELSE 6

\* The first test function from step on that has a probe to make.
RECURSIVE NextStep(_, _)
NextStep(p, step) ==
    IF step > 5 THEN 6
    ELSE IF HasWork(p, step, 0, KubeletTargets(testPods[p], nodeIPs)) THEN step
    ELSE NextStep(p, step + 1)

\* The task after one probe: it stays in its test function while that has
\* work left, and else enters the next one that has.
MutAdvance(p, t, k, todo, r) ==
    IF ~r.Success THEN [step |-> 6, k |-> 0, todo |-> {}, res |-> Append(t.res, r)]
    ELSE IF HasWork(p, t.step, k, todo)
    THEN [t EXCEPT !.k = k, !.todo = todo, !.res = Append(t.res, r)]
    ELSE [NewTask(p, NextStep(p, t.step + 1)) EXCEPT !.res = Append(t.res, r)]

Advance(p, t, k, todo, r) ==
    IF HasWork(p, t.step, k, todo)
    THEN [t EXCEPT !.k = k, !.todo = todo, !.res = Append(t.res, r)]
    ELSE [NewTask(p, NextStep(p, t.step + 1)) EXCEPT !.res = Append(t.res, r)]

\* RunAllTests starts one goroutine per pod.
RunAllTests ==
    /\ pc = "RunAllTests"
    /\ tasks' = [p \in DOMAIN testPods |-> NewTask(p, NextStep(p, 1))]
    /\ pc' = "wg.Wait"
    /\ UNCHANGED <<callVars, engine, envVars, cleanup, readyNodes, testPods, idx, coreDNSIPs, nodeIPs,
                   results, report, ret, histVars, cliVars, requests>>

CountFail(err) == IF err \notin {"nil", "context canceled"} THEN 1 ELSE 0

\* One probe of TestCoreDNSConnectivity: the next address of dnsIPs.
TestCoreDNSConnectivity(p) ==
    /\ pc = "wg.Wait"
    /\ tasks[p].step = 1
    /\ \E err \in ExecInPod :
          LET k == tasks[p].k + 1
              r == TestResult(testPods[p], "coredns",
                              Target(coreDNSIPs[k], dnsPort, <<>>), err)
          IN  /\ tasks' = [tasks EXCEPT ![p] = Advance(p, tasks[p], k, {}, r)]
              /\ execFails' = execFails + CountFail(err)
    /\ UNCHANGED <<callVars, engine, envVars, pc, cleanup, readyNodes, testPods, idx, coreDNSIPs, nodeIPs,
                   results, report, ret, created, cleanupLog, listened, prov, cliVars>>
    /\ requests' = requests \cup {PodsRequest("create", "pods/exec")}

\* TestDNSResolution: nslookup github.com.
TestDNSResolution(p) ==
    /\ pc = "wg.Wait"
    /\ tasks[p].step = 2
    /\ \E err \in ExecInPod :
          LET r == TestResult(testPods[p], "dns", Target("github.com", 0, <<>>), err)
          IN  /\ tasks' = [tasks EXCEPT ![p] = Advance(p, tasks[p], 1, {}, r)]
              /\ execFails' = execFails + CountFail(err)
    /\ UNCHANGED <<callVars, engine, envVars, pc, cleanup, readyNodes, testPods, idx, coreDNSIPs, nodeIPs,
                   results, report, ret, created, cleanupLog, listened, prov, cliVars>>
    /\ requests' = requests \cup {PodsRequest("create", "pods/exec")}

\* TestExternalTCP: nc github.com 443.
TestExternalTCP(p) ==
    /\ pc = "wg.Wait"
    /\ tasks[p].step = 3
    /\ \E err \in ExecInPod :
          LET r == TestResult(testPods[p], "external-tcp",
                              Target("github.com", 443, <<>>), err)
          IN  /\ tasks' = [tasks EXCEPT ![p] = Advance(p, tasks[p], 1, {}, r)]
              /\ execFails' = execFails + CountFail(err)
    /\ UNCHANGED <<callVars, engine, envVars, pc, cleanup, readyNodes, testPods, idx, coreDNSIPs, nodeIPs,
                   results, report, ret, created, cleanupLog, listened, prov, cliVars>>
    /\ requests' = requests \cup {PodsRequest("create", "pods/exec")}

\* One probe of TestKubeletConnectivity: the range over the map nodeIPs
\* visits the nodes in no fixed order and skips the pod's own node.
TestKubeletConnectivity(p) ==
    /\ pc = "wg.Wait"
    /\ tasks[p].step = 4
    /\ \E nodeName \in tasks[p].todo, err \in ExecInPod :
          LET r == TestResult(testPods[p], "kubelet",
                              Target(nodeIPs[nodeName], kubeletPort, nodeName), err)
          IN  /\ tasks' = [tasks EXCEPT ![p] =
                     Advance(p, tasks[p], 0, tasks[p].todo \ {nodeName}, r)]
              /\ execFails' = execFails + CountFail(err)
    /\ UNCHANGED <<callVars, engine, envVars, pc, cleanup, readyNodes, testPods, idx, coreDNSIPs, nodeIPs,
                   results, report, ret, created, cleanupLog, listened, prov, cliVars>>
    /\ requests' = requests \cup {PodsRequest("create", "pods/exec")}

\* One probe of TestPodToPod: the next pod of allPods whose name is not the
\* source pod's.
TestPodToPod(p) ==
    /\ pc = "wg.Wait"
    /\ tasks[p].step = 5
    /\ \E err \in ExecInPod :
          LET left == {j \in PodToPodTargets(testPods[p], testPods) : j > tasks[p].k}
              j == CHOOSE i \in left : \A m \in left : i <= m
              targetPod == testPods[j]
              r == TestResult(testPods[p], "pod-to-pod",
                              Target(targetPod.PodIP, testListenPort, targetPod.NodeName),
                              err)
          IN  /\ tasks' = [tasks EXCEPT ![p] = Advance(p, tasks[p], j, {}, r)]
              /\ execFails' = execFails + CountFail(err)
    /\ UNCHANGED <<callVars, engine, envVars, pc, cleanup, readyNodes, testPods, idx, coreDNSIPs, nodeIPs,
                   results, report, ret, created, cleanupLog, listened, prov, cliVars>>
    /\ requests' = requests \cup {PodsRequest("create", "pods/exec")}

\* An append to the slice as it was when the goroutines started.
MutAppendResults(p) ==
    /\ pc = "wg.Wait"
    /\ tasks[p].step = 6
    /\ results' = tasks[p].res
    /\ tasks' = [tasks EXCEPT ![p].step = 7]
    /\ UNCHANGED <<callVars, engine, envVars, pc, cleanup, readyNodes, testPods, idx, coreDNSIPs,
                   nodeIPs, report, ret, histVars, cliVars, requests>>

\* mu.Lock(); results = append(results, podResults...); mu.Unlock()
AppendResults(p) ==
    /\ pc = "wg.Wait"
    /\ tasks[p].step = 6
    /\ results' = results \o tasks[p].res
    /\ tasks' = [tasks EXCEPT ![p].step = 7]
    /\ UNCHANGED <<callVars, engine, envVars, pc, cleanup, readyNodes, testPods, idx, coreDNSIPs, nodeIPs,
                   report, ret, histVars, cliVars, requests>>

\* A loop that counts a result as passed when it has no error of its own
\* command (a cancelled call is let through).
MutTally(rs) ==
    LET pass(i) == rs[i].Error # "command terminated with exit code 1" IN
    [Total |-> Len(rs),
     Passed |-> Cardinality({i \in DOMAIN rs : pass(i)}),
     Failed |-> Cardinality({i \in DOMAIN rs : ~pass(i)})]

\* The tallies of Run's loop over the results: every result counts once in
\* Total and once in Passed or in Failed, by its Success.
Tally(rs) ==
    [Total |-> Len(rs),
     Passed |-> Cardinality({i \in DOMAIN rs : rs[i].Success}),
     Failed |-> Cardinality({i \in DOMAIN rs : ~rs[i].Success})]

\* A wait that ends with the first goroutine that is done.
MutJoin ==
    /\ pc = "wg.Wait"
    /\ \E p \in DOMAIN tasks : tasks[p].step = 7
    /\ report' = [report EXCEPT !.TestResults = results, !.Summary = Tally(results)]
    /\ ret' = Return(TRUE, "nil", <<>>)
    /\ pc' = "CleanupDelete"
    /\ cleanup' = [site |-> "defer", ctx |-> "cleanup"]
    /\ UNCHANGED <<callVars, engine, envVars, readyNodes, testPods, idx, coreDNSIPs, nodeIPs, tasks,
                   results, histVars, cliVars, requests>>

\* wg.Wait() returns once every goroutine is done; Run tallies the results,
\* returns the report, and the deferred cleanup runs with its own context.
Join ==
    /\ pc = "wg.Wait"
    /\ \A p \in DOMAIN tasks : tasks[p].step = 7
    /\ report' = [report EXCEPT !.TestResults = results, !.Summary = Tally(results)]
    /\ ret' = Return(TRUE, "nil", <<>>)
    /\ pc' = "CleanupDelete"
    /\ cleanup' = [site |-> "defer", ctx |-> "cleanup"]
    /\ UNCHANGED <<callVars, engine, envVars, readyNodes, testPods, idx, coreDNSIPs, nodeIPs, tasks,
                   results, histVars, cliVars, requests>>

(***************************************************************************)
(* The command: runNetworkTest calls Run, writes the report and exits.     *)
(***************************************************************************)
\* The values of the flag --output: "json" selects FormatJSON, any other
\* value FormatText.
OutputFormats == {"text", "json"}

\* Whether writer.Write returns nil: writeJSON returns the error of the
\* encoder's write to the standard output, writeText returns nil always.
WriteOutcomes(outputFormat) == IF outputFormat = "json" THEN BOOLEAN ELSE {TRUE}

\* The status runNetworkTest exits with after Run has returned.
MutExitStatus(runErr, wrote, failed) ==
    IF runErr # "nil" \/ ~wrote THEN ExitInternalErr
    ELSE IF failed > 1 THEN ExitCritical
    ELSE ExitOK

ExitStatus(runErr, wrote, failed) ==
    IF runErr # "nil" THEN ExitInternalErr
    ELSE IF ~wrote THEN ExitInternalErr
    ELSE IF failed > 0 THEN ExitCritical
    ELSE ExitOK

\* The status of the process the user started: the command itself, or the
\* parent that re-executed it in isolated namespaces and exits with the
\* child's status when that is not zero, and returns nil when it is.
execChild(childStatus) == IF childStatus # 0 THEN childStatus ELSE ExitOK

runNetworkTest ==
    /\ pc = "done"
    /\ exitCode = NotExited
    /\ \E outputFormat \in OutputFormats, isolated \in BOOLEAN :
       \E wrote \in WriteOutcomes(outputFormat) :
          LET status == ExitStatus(ret.err, wrote, report.Summary.Failed)
          IN  /\ exitCode' = IF isolated THEN execChild(status) ELSE status
              /\ written' = IF ret.err # "nil" THEN "none"
                            ELSE IF wrote THEN "ok" ELSE "error"
    /\ UNCHANGED <<callVars, engine, envVars, runVars, histVars, requests>>

Next ==
    \/ CancelCtx
    \/ NsRemovePods
    \/ NsFinalize
    \/ PodProgress
    \/ EnsureNamespace
    \/ CleanupDelete
    \/ CleanupPoll
    \/ ListNodes
    \/ CreateTestPods
    \/ WaitForPodsReady
    \/ Discover
    \/ StartListeners
    \/ RunAllTests
    \/ \E p \in DOMAIN tasks :
          \/ TestCoreDNSConnectivity(p)
          \/ TestDNSResolution(p)
          \/ TestExternalTCP(p)
          \/ TestKubeletConnectivity(p)
          \/ TestPodToPod(p)
          \/ AppendResults(p)
    \/ Join
    \/ runNetworkTest

Spec == Init /\ [][Next]_vars

\* The same run in a cluster whose namespace controller does its work: the
\* content of a terminating namespace is removed, and then the namespace.
SpecLive == Spec /\ WF_vars(NsRemovePods) /\ WF_vars(NsFinalize)

(***************************************************************************)
(* Run from the return of WaitForPodsReady on, with steps that are taken.  *)
(***************************************************************************)
\* The steps of Run from the discovery of the DNS endpoints on. Each is
\* taken once it can be: the calls of the API and the execs end, with a
\* result or an error, and no goroutine waits for anything but them.
ProbePhaseSteps ==
    \/ Discover
    \/ StartListeners
    \/ RunAllTests
    \/ \E p \in DOMAIN tasks :
          \/ TestCoreDNSConnectivity(p)
          \/ TestDNSResolution(p)
          \/ TestExternalTCP(p)
          \/ TestKubeletConnectivity(p)
          \/ TestPodToPod(p)
          \/ AppendResults(p)
    \/ Join
    \/ CleanupDelete
    \/ CleanupPoll

\* Run as it is when WaitForPodsReady has returned nil: the namespace is
\* active (the Delete of the first CleanupTestPods was refused), every pod
\* is running and ready and has its IP recorded.
InitProbes ==
    /\ nodes \in {<<NodeU, NodeA>>, <<NodeD, NodeB, NodeA, NodeU>>}
    /\ kubeSystem \in {ks \in KubeSystems :
                          Len(DiscoverCoreDNSPods(ks, {1, 2, 3}, TRUE).ips) # 1}
    /\ ns = "active"
    /\ clusterPods = [n \in {PodNameFor(filterReadyNodes(nodes)[i].Name) :
                                i \in DOMAIN filterReadyNodes(nodes)} |->
                         LET node == CHOOSE m \in Range(filterReadyNodes(nodes)) :
                                         PodNameFor(m.Name) = n
                         IN  [node |-> node.Name, phase |-> "Running", ready |-> TRUE,
                              ip |-> AssignedPodIP(node.Name)]]
    /\ ctxCancelled = FALSE
    /\ pc = "DiscoverCoreDNSPods"
    /\ cleanup = NoCleanup
    /\ readyNodes = filterReadyNodes(nodes)
    /\ testPods = [i \in DOMAIN filterReadyNodes(nodes) |->
                      [NewTestPod(filterReadyNodes(nodes)[i]) EXCEPT
                          !.PodIP = AssignedPodIP(filterReadyNodes(nodes)[i].Name)]]
    /\ idx = Len(filterReadyNodes(nodes))
    /\ coreDNSIPs = <<>>
    /\ nodeIPs = GetNodeInternalIPs(<<>>)
    /\ tasks = <<>>
    /\ results = <<>>
    /\ report = [EmptyReport EXCEPT !.NodeCount = Len(filterReadyNodes(nodes)),
                                    !.PodCount = Len(filterReadyNodes(nodes))]
    /\ ret = NoRet
    /\ execFails = 0
    /\ created = {[name |-> PodNameFor(filterReadyNodes(nodes)[i].Name),
                   node |-> filterReadyNodes(nodes)[i].Name] :
                      i \in DOMAIN filterReadyNodes(nodes)}
    /\ cleanupLog = <<[site |-> "pre", ctx |-> "caller", issued |-> FALSE]>>
    /\ listened = {}
    /\ prov = NoProv
    /\ exitCode = NotExited
    /\ written = "none"
    /\ requests = {NamespaceRequest("create"), NamespaceRequest("delete"),
                   NodesRequest("list"), PodsRequest("create", "pods"),
                   PodsRequest("get", "pods")}
    /\ engine = NoEngine
    /\ wait = NoWait
    /\ discovered = NoDiscovery
    /\ checkResults = <<>>
    /\ cleanupCall = NoCleanupCall

NextProbes ==
    \/ CancelCtx
    \/ NsRemovePods
    \/ NsFinalize
    \/ ProbePhaseSteps

SpecProbes == InitProbes /\ [][NextProbes]_vars /\ WF_vars(ProbePhaseSteps)

(***************************************************************************)
(* Provisioning invoked twice: EnsureNamespace and CreateTestPods are      *)
(* called for the ready nodes of the cluster, and once they have returned  *)
(* they are called again for the same nodes. The API server answers every  *)
(* call, and nothing but the kubelets touches the namespace meanwhile.     *)
(* prov.round counts the invocations that have returned, prov.err is the   *)
(* error of the last one, prov.testPods and prov.pods are the list the     *)
(* first one returned and the pods (name, node) it left in the namespace.  *)
(***************************************************************************)
PodSet == {[name |-> n, node |-> clusterPods[n].node] : n \in DOMAIN clusterPods}

InitProv ==
    /\ nodes \in NodeLists
    /\ kubeSystem \in KubeSystems
    /\ \E n0 \in InitialNamespaces : ns = n0.ns /\ clusterPods = n0.pods
    /\ ctxCancelled = FALSE
    /\ pc = "prov.EnsureNamespace"
    /\ cleanup = NoCleanup
    /\ readyNodes = filterReadyNodes(nodes)
    /\ testPods = <<>>
    /\ idx = 1
    /\ coreDNSIPs = <<>>
    /\ nodeIPs = GetNodeInternalIPs(<<>>)
    /\ tasks = <<>>
    /\ results = <<>>
    /\ report = EmptyReport
    /\ ret = NoRet
    /\ execFails = 0
    /\ created = {}
    /\ cleanupLog = <<>>
    /\ listened = {}
    /\ prov = NoProv
    /\ exitCode = NotExited
    /\ written = "none"
    /\ requests = {}
    /\ engine = NoEngine
    /\ wait = NoWait
    /\ discovered = NoDiscovery
    /\ checkResults = <<>>
    /\ cleanupCall = NoCleanupCall

\* The invocation in progress returns err.
ProvReturns(err, list) ==
    /\ prov' = IF prov.round = 0
               THEN [round |-> 1, err |-> err, testPods |-> list, pods |-> PodSet]
               ELSE [prov EXCEPT !.round = 2, !.err = err]
    /\ pc' = IF prov.round = 0 /\ err = "nil" THEN "prov.EnsureNamespace" ELSE "prov.done"

\* n.EnsureNamespace(ctx)
ProvEnsureNamespace ==
    /\ pc = "prov.EnsureNamespace"
    /\ LET c == NamespaceCreate(TRUE) IN
       /\ ns' = c.ns
       /\ IF c.status = "error"
          THEN /\ ProvReturns("failed to create namespace", <<>>)
               /\ UNCHANGED <<testPods, idx>>
          ELSE /\ pc' = "prov.CreateTestPods"
               /\ testPods' = <<>>
               /\ idx' = 1
               /\ prov' = prov
    /\ UNCHANGED <<callVars, engine, nodes, kubeSystem, clusterPods, ctxCancelled, cleanup, readyNodes,
                   coreDNSIPs, nodeIPs, tasks, results, report, ret, execFails, created,
                   cleanupLog, listened, cliVars>>
    /\ requests' = requests \cup {NamespaceRequest("create")}

\* One iteration of the loop of CreateTestPods, or its return of the list
\* after the last one.
ProvCreateTestPods ==
    /\ pc = "prov.CreateTestPods"
    /\ IF idx > Len(readyNodes)
       THEN /\ ProvReturns("nil", testPods)
            /\ UNCHANGED <<testPods, clusterPods, created, idx>>
       ELSE LET node == readyNodes[idx]
                podName == PodNameFor(node.Name)
                status == PodCreate(TRUE, podName)
            IN  IF PodAccepted(status)
                THEN /\ testPods' = Append(testPods, NewTestPod(node))
                     /\ clusterPods' = PodsAfterCreate(status, podName, node.Name)
                     /\ created' = IF status = "created"
                                   THEN created \cup
                                          {[name |-> podName, node |-> node.Name]}
                                   ELSE created
                     /\ idx' = idx + 1
                     /\ UNCHANGED <<pc, prov>>
                ELSE /\ testPods' = <<>>
                     /\ UNCHANGED <<clusterPods, created, idx>>
                     /\ ProvReturns("failed to create pod", <<>>)
    /\ requests' = IF idx > Len(readyNodes) THEN requests
                   ELSE requests \cup {PodsRequest("create", "pods")}
    /\ UNCHANGED <<callVars, engine, nodes, kubeSystem, ns, ctxCancelled, cleanup, readyNodes, coreDNSIPs,
                   nodeIPs, tasks, results, report, ret, execFails, cleanupLog, listened,
                   cliVars>>

NextProv ==
    \/ ProvEnsureNamespace
    \/ ProvCreateTestPods
    \/ PodProgress

SpecProvision == InitProv /\ [][NextProv]_vars

(***************************************************************************)
(* The check engine (package probe): Engine.Run starts one goroutine per   *)
(* enabled check and collects one CheckResult from each under a mutex.     *)
(* engine.i is the position of the loop over e.checks, engine.go the       *)
(* state of the goroutine of each check ("none": not reached or skipped,   *)
(* "spawned", "ran": c.Run has returned, "done": appended), engine.out     *)
(* what each goroutine is about to append, engine.called and               *)
(* engine.configured the checks whose Run and Configure were invoked.      *)
(* Messages and details are sequences of characters.                       *)
(***************************************************************************)
SeverityOK == 0
SeverityWarning == 1
SeverityCritical == 2

Result(checkName, severity, message, details) ==
    [CheckName |-> checkName, Severity |-> severity, Message |-> message,
     Details |-> details]

\* What a check's Run returns when it returns no error. The field check is
\* the position of the check in e.checks: it tells the results of two
\* checks of one name apart and is not read by the engine.
CheckResultOf(name, tier, rs) == [Name |-> name, Tier |-> tier, Results |-> rs]

CheckPodStatus ==
    [name |-> "pod-status", tier |-> 1, configurable |-> TRUE,
     result |-> CheckResultOf("pod-status", 1,
        << Result("pod-status", SeverityCritical, <<"k", "s", "/", "a">>, <<>>),
           Result("pod-status", SeverityOK, <<"o", "k">>, << <<"a", "/", "k", "s">> >>),
           Result("pod-status", SeverityWarning, <<"k", "s", "/">>,
                  << <<"k", "s">>, <<"/", "k", "s">> >>) >>)]
CheckNodeCapacity ==
    [name |-> "node-capacity", tier |-> 1, configurable |-> FALSE,
     result |-> CheckResultOf("node-capacity", 1,
        << Result("node-capacity", SeverityOK, <<"o", "k">>, <<>>) >>)]
CheckPodStatusAgain ==
    [name |-> "pod-status", tier |-> 2, configurable |-> FALSE,
     result |-> CheckResultOf("pod-status", 2, <<>>)]

CheckLists ==
    { <<>>, <<CheckPodStatus>>, <<CheckPodStatus, CheckNodeCapacity>>,
      <<CheckNodeCapacity, CheckPodStatus, CheckPodStatusAgain>> }

\* A config: Checks maps a check name to its Enabled ("unset" for a nil
\* pointer), Ignore.Checks and Ignore.Namespaces are lists.
Config(checks, ignoreChecks, ignoreNamespaces) ==
    [nil |-> FALSE, Checks |-> checks, IgnoreChecks |-> ignoreChecks,
     IgnoreNamespaces |-> ignoreNamespaces]
NoCheckConfig == [n \in {} |-> "unset"]

\* The config of an engine after SetConfig(nil).
NilConfig == [Config(NoCheckConfig, <<>>, <<>>) EXCEPT !.nil = TRUE]

\* The configs of the engine.
Configs ==
    { NilConfig,
      Config(NoCheckConfig, <<>>, <<>>),
      Config([n \in {"pod-status"} |-> "false"], <<>>, << <<"k", "s">> >>),
      Config([n \in {"node-capacity"} |-> "unset"], <<"secrets-usage", "node-capacity">>,
             << <<"x">>, <<"k", "s">> >>),
      Config([n \in {"node-capacity"} |-> "true"], <<"node-capacity">>, <<>>) }

\* Config.IsCheckEnabled: an Enabled that is set decides; else the check is
\* enabled unless Ignore.Checks names it.
MutIsCheckEnabled(cfg, name) ==
    IF name \in DOMAIN cfg.Checks /\ cfg.Checks[name] # "unset"
    THEN cfg.Checks[name] = "true"
    ELSE TRUE

IsCheckEnabled(cfg, name) ==
    IF name \in DOMAIN cfg.Checks /\ cfg.Checks[name] # "unset"
    THEN cfg.Checks[name] = "true"
    ELSE \A k \in DOMAIN cfg.IgnoreChecks : cfg.IgnoreChecks[k] # name

\* containsNamespace(s, ns): s is longer than ns by more than one and starts
\* with ns + "/" or ends with "/" + ns.
containsNamespace(str, nsName) ==
    /\ Len(str) > Len(nsName) + 1
    /\ \/ SubSeq(str, 1, Len(nsName) + 1) = nsName \o <<"/">>
       \/ /\ Len(str) > Len(nsName)
          /\ SubSeq(str, Len(str) - Len(nsName), Len(str)) = <<"/">> \o nsName

\* Whether the filter of Engine.Run drops a result: some ignored namespace
\* is contained in one of its details or in its message.
Ignored(cfg, r) ==
    \E k \in DOMAIN cfg.IgnoreNamespaces :
        \/ \E d \in DOMAIN r.Details :
              containsNamespace(r.Details[d], cfg.IgnoreNamespaces[k])
        \/ containsNamespace(r.Message, cfg.IgnoreNamespaces[k])

NotIgnored(cfg, r) == ~Ignored(cfg, r)

\* The CheckResult a goroutine appends when c.Run returned a result.
Filtered(cfg, result) ==
    IF cfg.nil THEN result
    ELSE [result EXCEPT !.Results =
              SelectSeq(result.Results, LAMBDA r : NotIgnored(cfg, r))]

\* The CheckResult a goroutine appends when c.Run returned an error.
FailedToExecute(c, err) ==
    CheckResultOf(c.name, c.tier,
        << Result(c.name, SeverityCritical, <<"Check failed to execute">>, <<err>>) >>)

NoOut == [check |-> 0, err |-> "nil", result |-> CheckResultOf("", 0, <<>>)]

InitEngine ==
    /\ nodes = <<>>
    /\ kubeSystem = [endpoints |-> <<NoEndpoints, NoEndpoints, NoEndpoints>>,
                     pods |-> <<>>]
    /\ ns = "absent" /\ clusterPods = NoPods
    /\ ctxCancelled = FALSE
    /\ pc = "Engine.Run"
    /\ cleanup = NoCleanup
    /\ readyNodes = <<>>
    /\ testPods = <<>>
    /\ idx = 0
    /\ coreDNSIPs = <<>>
    /\ nodeIPs = GetNodeInternalIPs(<<>>)
    /\ tasks = <<>>
    /\ results = <<>>
    /\ report = EmptyReport
    /\ ret = NoRet
    /\ execFails = 0
    /\ created = {}
    /\ cleanupLog = <<>>
    /\ listened = {}
    /\ prov = NoProv
    /\ exitCode = NotExited
    /\ written = "none"
    /\ requests = {}
    /\ wait = NoWait
    /\ discovered = NoDiscovery
    /\ checkResults = <<>>
    /\ cleanupCall = NoCleanupCall
    /\ \E cs \in CheckLists, cfg \in Configs :
          engine = [NoEngine EXCEPT !.checks = cs, !.config = cfg, !.i = 1,
                                    !.go = [k \in DOMAIN cs |-> "none"],
                                    !.out = [k \in DOMAIN cs |-> NoOut]]

EngineUnchanged ==
    UNCHANGED <<envVars, runVars, histVars, cliVars, requests, callVars>>

\* One iteration of the loop of Engine.Run over e.checks: a check that the
\* config disables is skipped; any other is configured, if it is
\* configurable and there is a config, and its goroutine started.
EngineRunLoop ==
    /\ pc = "Engine.Run"
    /\ ~engine.ret.returned
    /\ engine.i \in DOMAIN engine.checks
    /\ LET i == engine.i
           check == engine.checks[i]
       IN  IF ~engine.config.nil /\ ~IsCheckEnabled(engine.config, check.name)
           THEN engine' = [engine EXCEPT !.i = i + 1]
           ELSE engine' = [engine EXCEPT
                    !.i = i + 1,
                    !.go[i] = "spawned",
                    !.configured = IF check.configurable /\ ~engine.config.nil
                                   THEN @ \cup {i} ELSE @]
    /\ EngineUnchanged

\* The goroutine of check i calls c.Run, which returns a result or an
\* error, and prepares what it will append.
CheckRun(i) ==
    /\ pc = "Engine.Run"
    /\ engine.go[i] = "spawned"
    /\ \E err \in {"nil", "check failed"} :
          LET c == engine.checks[i]
              r == IF err # "nil" THEN FailedToExecute(c, err)
                   ELSE Filtered(engine.config, c.result)
          IN  engine' = [engine EXCEPT
                    !.go[i] = "ran",
                    !.called = @ \cup {i},
                    !.out[i] = [check |-> i, err |-> err, result |-> r]]
    /\ EngineUnchanged

\* The goroutine of check i appends under the mutex and is done.
EngineAppend(i) ==
    /\ pc = "Engine.Run"
    /\ engine.go[i] = "ran"
    /\ engine' = [engine EXCEPT !.go[i] = "done",
                                !.results = Append(@, engine.out[i])]
    /\ EngineUnchanged

\* wg.Wait() returns when every goroutine started is done, and Engine.Run
\* returns the results and a nil error (with no check registered it returns
\* the empty list at once).
EngineRunReturn ==
    /\ pc = "Engine.Run"
    /\ ~engine.ret.returned
    /\ engine.i > Len(engine.checks)
    /\ \A k \in DOMAIN engine.go : engine.go[k] \in {"none", "done"}
    /\ engine' = [engine EXCEPT
            !.ret = [returned |-> TRUE, err |-> "nil",
                     results |-> [k \in DOMAIN engine.results |->
                                     engine.results[k].result]]]
    /\ EngineUnchanged

NextEngine ==
    \/ EngineRunLoop
    \/ \E i \in DOMAIN engine.checks : CheckRun(i)
    \/ \E i \in DOMAIN engine.checks : EngineAppend(i)
    \/ EngineRunReturn

SpecEngine == InitEngine /\ [][NextEngine]_vars

(***************************************************************************)
(* CleanupTestPods called on its own, from each of its three call sites,   *)
(* on a namespace in any state, with the namespace controller at work and  *)
(* a caller that may cancel its context.                                   *)
(***************************************************************************)
\* The call sites of Run and the context each hands to CleanupTestPods.
CleanupSites ==
    { [site |-> "pre", ctx |-> "caller"],
      [site |-> "createfail", ctx |-> "caller"],
      [site |-> "defer", ctx |-> "cleanup"] }

InitCleanup ==
    /\ nodes = <<>>
    /\ kubeSystem = [endpoints |-> <<NoEndpoints, NoEndpoints, NoEndpoints>>, pods |-> <<>>]
    /\ \E n0 \in InitialNamespaces : ns = n0.ns /\ clusterPods = n0.pods
    /\ ctxCancelled \in BOOLEAN
    /\ pc = "CleanupTestPods"
    /\ cleanup \in CleanupSites
    /\ readyNodes = <<>>
    /\ testPods = <<>>
    /\ idx = 0
    /\ coreDNSIPs = <<>>
    /\ nodeIPs = GetNodeInternalIPs(<<>>)
    /\ tasks = <<>>
    /\ results = <<>>
    /\ report = EmptyReport
    /\ ret = NoRet
    /\ execFails = 0
    /\ created = {}
    /\ cleanupLog = <<>>
    /\ listened = {}
    /\ prov = NoProv
    /\ exitCode = NotExited
    /\ written = "none"
    /\ requests = {}
    /\ engine = NoEngine
    /\ wait = NoWait
    /\ discovered = NoDiscovery
    /\ checkResults = <<>>
    /\ cleanupCall = NoCleanupCall

\* The Delete request with the foreground propagation policy. An error
\* other than NotFound returns that error, NotFound returns nil, and an
\* accepted delete goes on to poll.
CleanupTestPods ==
    /\ pc = "CleanupTestPods"
    /\ \E ok \in ApiOutcomes(cleanup.ctx) :
          LET d == NamespaceDelete(ok) IN
          /\ ns' = d.ns
          /\ cleanupCall' = CleanupCall(cleanup.site, cleanup.ctx, ok, d.status)
          /\ pc' = IF d.status = "nil" THEN "CleanupTestPods.Poll"
                   ELSE "CleanupTestPods.return"
    /\ requests' = requests \cup {NamespaceRequest("delete")}
    /\ UNCHANGED <<nodes, kubeSystem, clusterPods, ctxCancelled, cleanup, readyNodes,
                   testPods, idx, coreDNSIPs, nodeIPs, tasks, results, report, ret,
                   histVars, cliVars, engine, wait, discovered, checkResults>>

\* One Get of the poll after an accepted delete (the first is made at
\* once). NotFound ends the poll; anything else, an error included, is "not
\* yet", and the poll goes on unless the 30 s bound has elapsed or the
\* context is done. CleanupTestPods returns nil either way.
CleanupTestPodsPoll ==
    /\ pc = "CleanupTestPods.Poll"
    /\ \E ok \in ApiOutcomes(cleanup.ctx), elapsed \in BOOLEAN :
          LET notFound == ok /\ ns = "absent" IN
          /\ cleanupCall' =
                IF notFound
                THEN [cleanupCall EXCEPT !.confirmed = TRUE, !.err = "nil"]
                ELSE [cleanupCall EXCEPT !.polled = TRUE,
                                         !.getError = @ \/ ~ok,
                                         !.err = IF elapsed THEN "nil" ELSE @]
          /\ pc' = IF notFound \/ elapsed THEN "CleanupTestPods.return" ELSE pc
    /\ requests' = requests \cup {NamespaceRequest("get")}
    /\ UNCHANGED <<envVars, cleanup, readyNodes, testPods, idx, coreDNSIPs, nodeIPs, tasks,
                   results, report, ret, histVars, cliVars, engine, wait, discovered,
                   checkResults>>

NextCleanup ==
    \/ CancelCtx
    \/ NsRemovePods
    \/ NsFinalize
    \/ CleanupTestPods
    \/ CleanupTestPodsPoll

SpecCleanup == InitCleanup /\ [][NextCleanup]_vars

(***************************************************************************)
(* DiscoverCoreDNSPods called on its own, on a kube-system namespace with  *)
(* any of the Endpoints objects and pod lists below, each API request of   *)
(* the call succeeding or failing.                                         *)
(***************************************************************************)
\* The addresses the Endpoints object of each service can hold.
ServiceIPs ==
    << <<"10.96.1.1", "10.96.1.2">>, <<"10.96.2.1", "10.96.2.2">>,
       <<"10.96.3.1", "10.96.3.2">> >>

\* The Endpoints object of the service at position k: none, one without
\* subsets, one whose first subset has no address, one with two addresses.
EndpointChoices(k) ==
    { NoEndpoints,
      Endpoints(<<>>),
      Endpoints(<< <<>>, <<ServiceIPs[k][1]>> >>),
      Endpoints(<< <<ServiceIPs[k][1], ServiceIPs[k][2]>> >>) }

PodLists ==
    { <<>>,
      <<SysPod(NameEtcd, "Running", "10.244.9.3")>>,
      <<SysPod(NameEtcd, "Running", "10.244.9.3"),
        SysPod(NameRke2CoreDNS, "Pending", "10.244.9.4"),
        SysPod(NameKubeDNSPod, "Running", ""),
        SysPod(NameShort, "Running", "10.244.9.6"),
        SysPod(NameKubeDNSPod, "Running", "10.244.9.5"),
        SysPod(NameRke2CoreDNS, "Running", "10.244.9.1")>> }

InitDiscover ==
    /\ nodes = <<>>
    /\ \E e1 \in EndpointChoices(1), e2 \in EndpointChoices(2), e3 \in EndpointChoices(3),
          ps \in PodLists :
          kubeSystem = [endpoints |-> <<e1, e2, e3>>, pods |-> ps]
    /\ ns = "absent" /\ clusterPods = NoPods
    /\ ctxCancelled = FALSE
    /\ pc = "DiscoverCoreDNSPods.call"
    /\ cleanup = NoCleanup
    /\ readyNodes = <<>>
    /\ testPods = <<>>
    /\ idx = 0
    /\ coreDNSIPs = <<>>
    /\ nodeIPs = GetNodeInternalIPs(<<>>)
    /\ tasks = <<>>
    /\ results = <<>>
    /\ report = EmptyReport
    /\ ret = NoRet
    /\ execFails = 0
    /\ created = {}
    /\ cleanupLog = <<>>
    /\ listened = {}
    /\ prov = NoProv
    /\ exitCode = NotExited
    /\ written = "none"
    /\ requests = {}
    /\ engine = NoEngine
    /\ wait = NoWait
    /\ discovered = NoDiscovery
    /\ checkResults = <<>>
    /\ cleanupCall = NoCleanupCall

\* The call: the Gets of okGet and the List (okList) return without error.
\* The List is sent only when the service loop has not returned.
CallDiscoverCoreDNSPods ==
    /\ pc = "DiscoverCoreDNSPods.call"
    /\ \E okGet \in SUBSET (1..Len(serviceNames)), okList \in BOOLEAN :
          LET d == DiscoverCoreDNSPods(kubeSystem, okGet, okList) IN
          /\ discovered' = [called |-> TRUE, okGet |-> okGet, okList |-> okList,
                            ips |-> d.ips, err |-> d.err]
          /\ requests' = requests \cup {KubeSystemRequest("get", "endpoints")}
                \cup (IF Len(ServiceScan(kubeSystem, okGet, 1, <<>>)) > 0 THEN {}
                      ELSE {KubeSystemRequest("list", "pods")})
    /\ pc' = "DiscoverCoreDNSPods.return"
    /\ UNCHANGED <<envVars, cleanup, readyNodes, testPods, idx, coreDNSIPs, nodeIPs, tasks,
                   results, report, ret, histVars, cliVars, engine, wait, checkResults,
                   cleanupCall>>

NextDiscover == CallDiscoverCoreDNSPods

SpecDiscover == InitDiscover /\ [][NextDiscover]_vars

(***************************************************************************)
(* convertNetworkReport called on its own, on the report of a run whose    *)
(* result collection is any sequence of up to MaxResults results of the    *)
(* five test types, passed or failed.                                      *)
(***************************************************************************)
typeNames ==
    [t \in {"coredns", "dns", "external-tcp", "kubelet", "pod-to-pod"} |->
        CASE t = "coredns" -> "CoreDNS Connectivity"
          [] t = "dns" -> "DNS Resolution"
          [] t = "external-tcp" -> "External TCP Connectivity"
          [] t = "kubelet" -> "Kubelet Connectivity"
          [] t = "pod-to-pod" -> "Pod-to-Pod Connectivity"]

typeOrder == <<"coredns", "dns", "external-tcp", "kubelet", "pod-to-pod">>

\* byType[testType]
byType(r, testType) == SelectSeq(r.TestResults, LAMBDA tr : tr.TestType = testType)

\* The entries of one group: a Critical entry for each failed result, in
\* order, and after them one OK entry when none failed and one passed.
\* A message is the tuple of the values formatted into it.
RECURSIVE Criticals(_, _)
Criticals(testType, typeResults) ==
    IF typeResults = <<>> THEN <<>>
    ELSE LET tr == Head(typeResults) IN
         (IF tr.Success THEN <<>>
          ELSE <<Result(<<"network-test", testType>>, SeverityCritical,
                        <<typeNames[testType], tr.SourceNode, tr.Target, "failed">>,
                        <<tr.Error>>)>>)
         \o Criticals(testType, Tail(typeResults))

MutGroupResults(testType, typeResults) ==
    LET passed == Len(SelectSeq(typeResults, LAMBDA tr : tr.Success))
        failed == Len(typeResults) - passed
    IN  Criticals(testType, typeResults)
        \o (IF passed > 0
            THEN <<Result(<<"network-test", testType>>, SeverityOK,
                          <<typeNames[testType], passed, passed, "tests passed">>, <<>>)>>
            ELSE <<>>)

GroupResults(testType, typeResults) ==
    LET passed == Len(SelectSeq(typeResults, LAMBDA tr : tr.Success))
        failed == Len(typeResults) - passed
    IN  Criticals(testType, typeResults)
        \o (IF failed = 0 /\ passed > 0
            THEN <<Result(<<"network-test", testType>>, SeverityOK,
                          <<typeNames[testType], passed, passed, "tests passed">>, <<>>)>>
            ELSE <<>>)

\* The loop over typeOrder from position k: a type without an entry in
\* byType is skipped.
RECURSIVE ConvertFrom(_, _)
ConvertFrom(r, k) ==
    IF k > Len(typeOrder) THEN <<>>
    ELSE LET testType == typeOrder[k]
             typeResults == byType(r, testType)
         IN  (IF typeResults = <<>> THEN <<>>
              ELSE <<CheckResultOf(<<"network-test", testType>>, 4,
                                   GroupResults(testType, typeResults))>>)
             \o ConvertFrom(r, k + 1)

convertNetworkReport(r) == ConvertFrom(r, 1)

\* The results a run can hand over: from one pod, of any type, passed or
\* failed.
SomePod == [Name |-> PodNameFor(NameNodeA), NodeName |-> NameNodeA, PodIP |-> "10.244.1.2"]

SomeResults ==
    {TestResult(SomePod, t, Target("10.0.0.9", 0, <<>>), err) :
        t \in Range(typeOrder), err \in {"nil", "command terminated with exit code 1"}}

ResultLists == UNION {[1..n -> SomeResults] : n \in 0..MaxResults}

InitConvert ==
    /\ nodes = <<>>
    /\ kubeSystem = [endpoints |-> <<NoEndpoints, NoEndpoints, NoEndpoints>>, pods |-> <<>>]
    /\ ns = "absent" /\ clusterPods = NoPods
    /\ ctxCancelled = FALSE
    /\ pc = "convertNetworkReport.call"
    /\ cleanup = NoCleanup
    /\ readyNodes = <<>>
    /\ testPods = <<>>
    /\ idx = 0
    /\ coreDNSIPs = <<>>
    /\ nodeIPs = GetNodeInternalIPs(<<>>)
    /\ tasks = <<>>
    /\ results = <<>>
    /\ \E rs \in ResultLists :
          report = [EmptyReport EXCEPT !.NodeCount = 1, !.PodCount = 1,
                                       !.TestResults = rs, !.Summary = Tally(rs)]
    /\ ret = Return(TRUE, "nil", <<>>)
    /\ execFails = 0
    /\ created = {}
    /\ cleanupLog = <<>>
    /\ listened = {}
    /\ prov = NoProv
    /\ exitCode = NotExited
    /\ written = "none"
    /\ requests = {}
    /\ engine = NoEngine
    /\ wait = NoWait
    /\ discovered = NoDiscovery
    /\ checkResults = <<>>
    /\ cleanupCall = NoCleanupCall

\* results := convertNetworkReport(testReport)
CallConvertNetworkReport ==
    /\ pc = "convertNetworkReport.call"
    /\ checkResults' = convertNetworkReport(report)
    /\ pc' = "convertNetworkReport.return"
    /\ UNCHANGED <<envVars, cleanup, readyNodes, testPods, idx, coreDNSIPs, nodeIPs, tasks,
                   results, report, ret, histVars, cliVars, requests, engine, wait,
                   discovered, cleanupCall>>

NextConvert == CallConvertNetworkReport

SpecConvert == InitConvert /\ [][NextConvert]_vars

(***************************************************************************)
(* WaitForPodsReady called on its own with the clock of its timeout        *)
(* context, on the pods CreateTestPods has returned for one or two ready   *)
(* nodes. wait.now is the time, in seconds, since the call; wait.polls[i]  *)
(* has the times of the first and the last Get of pod i (-1: none), whether *)
(* a Get of it failed, and what the Get that found it ready reported.      *)
(***************************************************************************)
\* WaitForPodsReady(ctx, testPods, 90*time.Second), and the interval of
\* wait.PollUntilContextCancel.
readyTimeout == 90
pollInterval == 2

NotPolled == [first |-> -1, last |-> -1, errors |-> FALSE,
              seen |-> [phase |-> "", ready |-> FALSE, ip |-> ""]]

\* The time at which the timeout context of the call is done, for the poll
\* of pod i: the context is made once, before the loop over the pods.
MutDeadline(w, i) == w.polls[i].first + readyTimeout

Deadline(w, i) == readyTimeout

\* The pods of the namespace when CreateTestPods returns: created pending,
\* or found there running and ready.
PodsFor(ready, reused) ==
    [n \in {PodNameFor(ready[i].Name) : i \in DOMAIN ready} |->
        LET i == CHOOSE j \in DOMAIN ready :
                     /\ PodNameFor(ready[j].Name) = n
                     /\ \A l \in DOMAIN ready : PodNameFor(ready[l].Name) = n => j <= l
        IN  IF i \in reused
            THEN [node |-> ready[i].Name, phase |-> "Running", ready |-> TRUE,
                  ip |-> AssignedPodIP(ready[i].Name)]
            ELSE NewPod(ready[i].Name)]

InitReady ==
    /\ nodes \in {l \in NodeLists : Len(filterReadyNodes(l)) > 0}
    /\ kubeSystem = [endpoints |-> <<NoEndpoints, NoEndpoints, NoEndpoints>>, pods |-> <<>>]
    /\ ns = "active"
    /\ \E reused \in SUBSET {1} : clusterPods = PodsFor(filterReadyNodes(nodes), reused)
    /\ ctxCancelled = FALSE
    /\ pc = "WaitForPodsReady.poll"
    /\ cleanup = NoCleanup
    /\ readyNodes = filterReadyNodes(nodes)
    /\ testPods = [i \in DOMAIN filterReadyNodes(nodes) |->
                      NewTestPod(filterReadyNodes(nodes)[i])]
    /\ idx = 1
    /\ coreDNSIPs = <<>>
    /\ nodeIPs = GetNodeInternalIPs(<<>>)
    /\ tasks = <<>>
    /\ results = <<>>
    /\ report = EmptyReport
    /\ ret = NoRet
    /\ execFails = 0
    /\ created = {}
    /\ cleanupLog = <<>>
    /\ listened = {}
    /\ prov = NoProv
    /\ exitCode = NotExited
    /\ written = "none"
    /\ requests = {}
    /\ engine = NoEngine
    /\ wait = [now |-> 0, polls |-> [i \in DOMAIN filterReadyNodes(nodes) |-> NotPolled]]
    /\ discovered = NoDiscovery
    /\ checkResults = <<>>
    /\ cleanupCall = NoCleanupCall

\* The poll of pod i as it is after a Get at the time now.
Polled(p, now, ok, seen) ==
    [first |-> IF p.first = -1 THEN now ELSE p.first, last |-> now,
     errors |-> p.errors \/ ~ok, seen |-> seen]

\* A round-robin over the pods: a pod that is not ready yet is left for the
\* next one.
MutWaitForPodsReadyPoll ==
    /\ pc = "WaitForPodsReady.poll"
    /\ \E ok \in ApiOutcomes("caller") :
          LET pod == testPods[idx]
              observed == PodObservedReady(ok, pod.Name)
          IN  IF observed
              THEN /\ wait' = [wait EXCEPT !.polls[idx] =
                                  Polled(@, wait.now, ok,
                                         [phase |-> clusterPods[pod.Name].phase,
                                          ready |-> clusterPods[pod.Name].ready,
                                          ip |-> clusterPods[pod.Name].ip])]
                   /\ testPods' = [testPods EXCEPT ![idx].PodIP = clusterPods[pod.Name].ip]
                   /\ IF idx = Len(testPods)
                      THEN /\ ret' = Return(FALSE, "nil", <<>>)
                           /\ pc' = "WaitForPodsReady.return"
                           /\ idx' = idx
                      ELSE ret' = ret /\ pc' = pc /\ idx' = idx + 1
              ELSE /\ wait' = [wait EXCEPT !.polls[idx] = Polled(@, wait.now, ok, @.seen)]
                   /\ IF idx < Len(testPods)
                      THEN pc' = pc /\ idx' = idx + 1
                      ELSE pc' = "WaitForPodsReady.wait" /\ idx' = idx
                   /\ UNCHANGED <<testPods, ret>>
    /\ requests' = requests \cup {PodsRequest("get", "pods")}
    /\ UNCHANGED <<envVars, cleanup, readyNodes, coreDNSIPs, nodeIPs, tasks, results, report,
                   histVars, cliVars, engine, discovered, checkResults, cleanupCall>>

\* The condition function of the poll of testPods[idx], run at the time
\* wait.now: a Get that fails, or that finds the pod not running or not
\* ready, is "not yet" and the poll waits for its interval; a Get that
\* finds it running and ready records its IP, and the loop goes on with the
\* next pod, whose first Get is made at once, or returns nil after the last.
WaitForPodsReadyPoll ==
    /\ pc = "WaitForPodsReady.poll"
    /\ \E ok \in ApiOutcomes("caller") :
          LET pod == testPods[idx]
              observed == PodObservedReady(ok, pod.Name)
          IN  IF observed
              THEN /\ wait' = [wait EXCEPT !.polls[idx] =
                                  Polled(@, wait.now, ok,
                                         [phase |-> clusterPods[pod.Name].phase,
                                          ready |-> clusterPods[pod.Name].ready,
                                          ip |-> clusterPods[pod.Name].ip])]
                   /\ testPods' = [testPods EXCEPT ![idx].PodIP = clusterPods[pod.Name].ip]
                   /\ IF idx = Len(testPods)
                      THEN /\ ret' = Return(FALSE, "nil", <<>>)
                           /\ pc' = "WaitForPodsReady.return"
                           /\ idx' = idx
                      ELSE ret' = ret /\ pc' = pc /\ idx' = idx + 1
              ELSE /\ wait' = [wait EXCEPT !.polls[idx] = Polled(@, wait.now, ok, @.seen)]
                   /\ pc' = "WaitForPodsReady.wait"
                   /\ UNCHANGED <<testPods, ret, idx>>
    /\ requests' = requests \cup {PodsRequest("get", "pods")}
    /\ UNCHANGED <<envVars, cleanup, readyNodes, coreDNSIPs, nodeIPs, tasks, results, report,
                   histVars, cliVars, engine, discovered, checkResults, cleanupCall>>

\* PollUntilContextCancel between two Gets: the context is done, because
\* the caller cancelled it or the deadline comes before the next Get, and
\* WaitForPodsReady returns the error naming the pod; or the interval
\* passes.
WaitForPodsReadyTick ==
    /\ pc = "WaitForPodsReady.wait"
    /\ IF ctxCancelled
       THEN /\ ret' = Return(FALSE, "failed to become ready", testPods[idx].Name)
            /\ pc' = "WaitForPodsReady.return"
            /\ wait' = wait
       ELSE IF wait.now + pollInterval >= Deadline(wait, idx)
       THEN /\ ret' = Return(FALSE, "failed to become ready", testPods[idx].Name)
            /\ pc' = "WaitForPodsReady.return"
            /\ wait' = [wait EXCEPT !.now = Deadline(wait, idx)]
       ELSE /\ wait' = [wait EXCEPT !.now = @ + pollInterval]
            /\ pc' = "WaitForPodsReady.poll"
            /\ ret' = ret
    /\ UNCHANGED <<envVars, cleanup, readyNodes, testPods, idx, coreDNSIPs, nodeIPs, tasks,
                   results, report, histVars, cliVars, requests, engine, discovered,
                   checkResults, cleanupCall>>

\* The caller cancels the context while WaitForPodsReady runs.
CancelWait ==
    /\ pc \in {"WaitForPodsReady.poll", "WaitForPodsReady.wait"}
    /\ CancelCtx

NextReady ==
    \/ PodProgress
    \/ CancelWait
    \/ WaitForPodsReadyPoll
    \/ WaitForPodsReadyTick

SpecReady == InitReady /\ [][NextReady]_vars

(***************************************************************************)
(* Properties.                                                             *)
(***************************************************************************)
\* Whether a node reports the condition Ready with status True.
NodeIsReady(node) ==
    \E c \in Range(node.Conditions) : c = Cond("Ready", "True")

\* Every result recorded so far: in the shared collection, in a goroutine's
\* batch, or in the report.
AllResults ==
    Range(results) \cup Range(report.TestResults)
        \cup UNION {Range(tasks[p].res) : p \in DOMAIN tasks}

\* C1: after Run has returned, on whichever path, the diagnostic namespace
\* is absent or terminating: it is not left active with pods in it.
C1_NamespaceNotLeftActive ==
    pc = "done" => ~(ns = "active" /\ DOMAIN clusterPods # {})

\* C2: on every exit path of Run, CleanupTestPods has been invoked for the
\* exit (not the pre-cleanup) with a context of its own, not the caller's.
C2_ReclaimerOnEveryExit ==
    pc = "done" =>
        \E i \in DOMAIN cleanupLog :
            cleanupLog[i].site # "pre" /\ cleanupLog[i].ctx = "cleanup"

\* C3: the pre-cleanup comes before the namespace is created for the run,
\* so whenever CreateTestPods is about to create a pod the namespace exists
\* and is not being deleted.
C3_NamespaceActiveAtPodCreation ==
    pc = "CreateTestPods" => ns = "active"

\* CreateTestPods has returned its list to Run without an error.
Provisioned ==
    \/ pc \in {"WaitForPodsReady", "DiscoverCoreDNSPods", "StartListeners",
               "RunAllTests", "wg.Wait"}
    \/ cleanup.site = "defer"
    \/ pc = "done" /\ testPods # <<>>

ReadyCount == Cardinality({i \in DOMAIN nodes : NodeIsReady(nodes[i])})

\* CreateTestPods has returned and the deferred cleanup has not begun: the
\* pods of the run are in the namespace.
PodsInPlace ==
    pc \in {"WaitForPodsReady", "DiscoverCoreDNSPods", "StartListeners",
            "RunAllTests", "wg.Wait"}

\* C4: when provisioning succeeds, the number of workload pods provisioned
\* equals the number N of nodes whose Ready condition is True:
\* CreateTestPods has returned exactly one TestPod per such node, the pods
\* of the namespace behind that list are N, and a report Run returns has
\* NodeCount = PodCount = N.
C4_OnePodPerReadyNode ==
    /\ Provisioned =>
          /\ Len(testPods) = ReadyCount
          /\ \A i \in DOMAIN nodes :
                Cardinality({j \in DOMAIN testPods : testPods[j].NodeName = nodes[i].Name})
                    = IF NodeIsReady(nodes[i]) THEN 1 ELSE 0
    /\ PodsInPlace =>
          Cardinality({m \in DOMAIN clusterPods :
                          \E j \in DOMAIN testPods : testPods[j].Name = m}) = ReadyCount
    /\ ret.hasReport => report.NodeCount = ReadyCount /\ report.PodCount = ReadyCount

\* C5: for any two distinct ready nodes the pod names derived by
\* sanitizeNodeName are distinct, so no two TestPod entries share a name.
C5_PodNamesDistinct ==
    /\ \A i, j \in DOMAIN readyNodes :
          i # j => PodNameFor(readyNodes[i].Name) # PodNameFor(readyNodes[j].Name)
    /\ \A i, j \in DOMAIN testPods : i # j => testPods[i].Name # testPods[j].Name

\* C6: a node whose Ready condition is not True has no pod created on it,
\* is the source node of no result, and is the target of no kubelet probe.
C6_NotReadyExcluded ==
    \A i \in DOMAIN nodes :
        ~NodeIsReady(nodes[i]) =>
            /\ \A c \in created : c.node # nodes[i].Name
            /\ \A j \in DOMAIN testPods : testPods[j].NodeName # nodes[i].Name
            /\ nodes[i].Name \notin DOMAIN nodeIPs
            /\ \A r \in AllResults :
                  /\ r.SourceNode # nodes[i].Name
                  /\ r.TestType = "kubelet" =>
                        /\ r.Target.name # nodes[i].Name
                        /\ HasInternalIP(nodes[i]) => r.Target.ip # FirstInternalIP(nodes[i])

\* A report holds a kubelet result while the cluster has a node that is not
\* ready and has an internal address.
C6_Witness ==
    /\ pc = "done" /\ ret.hasReport
    /\ \E r \in Range(report.TestResults) : r.TestType = "kubelet"
    /\ \E i \in DOMAIN nodes : ~NodeIsReady(nodes[i]) /\ HasInternalIP(nodes[i])

\* C7: the target of a kubelet result is never the internal-IP entry of the
\* result's own source node, and the target of a pod-to-pod result is never
\* the result's own source pod.
C7_SelfExclusion ==
    \A r \in AllResults :
        /\ r.TestType = "kubelet" =>
              /\ r.Target.name # r.SourceNode
              /\ r.Target = Target(nodeIPs[r.Target.name], kubeletPort, r.Target.name)
        /\ r.TestType = "pod-to-pod" =>
              /\ r.Target.name # r.SourceNode
              /\ \E j \in DOMAIN testPods :
                    /\ testPods[j].Name # r.SourcePod
                    /\ r.Target = Target(testPods[j].PodIP, testListenPort,
                                         testPods[j].NodeName)

\* A report holds a kubelet result and a pod-to-pod result.
C7_Witness ==
    /\ pc = "done" /\ ret.hasReport
    /\ \E r \in Range(report.TestResults) : r.TestType = "kubelet"
    /\ \E r \in Range(report.TestResults) : r.TestType = "pod-to-pod"

\* C8: every result has one of the five fixed test types, its SourcePod is
\* the name of a pod provisioned in the run (a TestPod of the run, and a pod
\* of the namespace while the probes run), and its SourceNode is the node
\* of that pod.
C8_ResultsWellFormed ==
    \A r \in AllResults :
        /\ r.TestType \in Range(TestTypes)
        /\ \E j \in DOMAIN testPods :
              testPods[j].Name = r.SourcePod /\ testPods[j].NodeName = r.SourceNode
        /\ PodsInPlace =>
              /\ r.SourcePod \in DOMAIN clusterPods
              /\ clusterPods[r.SourcePod].node = r.SourceNode

\* The probes of a run: every pod against every DNS address, the two
\* external targets, every other node with an internal IP, every pod of
\* another name.
ProbeKey(r) == <<r.SourceNode, r.SourcePod, r.TestType, r.Target>>

ExpectedProbes ==
    LET P == Range(testPods) IN
    {<<p.NodeName, p.Name, "coredns", Target(ip, dnsPort, <<>>)>> :
        p \in P, ip \in Range(coreDNSIPs)}
    \cup {<<p.NodeName, p.Name, "dns", Target("github.com", 0, <<>>)>> : p \in P}
    \cup {<<p.NodeName, p.Name, "external-tcp", Target("github.com", 443, <<>>)>> : p \in P}
    \cup UNION {{<<p.NodeName, p.Name, "kubelet", Target(nodeIPs[nm], kubeletPort, nm)>> :
                    nm \in DOMAIN nodeIPs \ {p.NodeName}} : p \in P}
    \cup UNION {{<<p.NodeName, p.Name, "pod-to-pod",
                   Target(q.PodIP, testListenPort, q.NodeName)>> :
                    q \in {x \in P : x.Name # p.Name}} : p \in P}

\* C9: whichever remote-exec calls fail, the same probes are attempted and
\* each is recorded once, a result has Success = FALSE and an error text
\* exactly when its call failed, and Run returns the report with a nil
\* error.
C9_FailedProbeIsData ==
    /\ \A r \in AllResults : r.Success <=> r.Error = ""
    /\ Cardinality({r \in AllResults : r.Error = "command terminated with exit code 1"})
          <= execFails
    /\ (pc = "wg.Wait" /\ \A p \in DOMAIN tasks : tasks[p].step = 7) =>
          /\ {ProbeKey(r) : r \in Range(results)} = ExpectedProbes
          /\ Len(results) = Cardinality(ExpectedProbes)
          /\ Cardinality({i \in DOMAIN results :
                 results[i].Error = "command terminated with exit code 1"}) = execFails
    /\ (pc = "done" /\ tasks # <<>>) =>
          /\ ret.hasReport /\ ret.err = "nil"
          /\ report.TestResults = results

\* A report comes back with a failed and a passed probe, the caller's
\* context never cancelled.
C9_Witness ==
    /\ pc = "done" /\ ret.hasReport /\ ~ctxCancelled
    /\ report.Summary.Failed > 0 /\ report.Summary.Passed > 0

\* C10: a second invocation of EnsureNamespace and CreateTestPods for the
\* same ready nodes, against the namespace the first one populated, returns
\* no error and the same TestPod list, and leaves the pods of the namespace
\* (their names and nodes) as they were, one per name.
C10_ProvisioningIdempotent ==
    prov.round = 2 =>
        /\ prov.err = "nil"
        /\ testPods = prov.testPods
        /\ PodSet = prov.pods
        /\ \A j \in DOMAIN testPods : testPods[j].Name \in DOMAIN clusterPods

\* The second invocation has returned for two ready nodes, one of whose
\* pods had turned ready in between.
C10_Witness ==
    /\ prov.round = 2
    /\ Len(testPods) = 2
    /\ \E n \in DOMAIN clusterPods : clusterPods[n].ready

\* Run has returned the error of WaitForPodsReady.
ReadinessTimedOut == ret.returned /\ ret.err = "pods failed to become ready"

\* The deferred cleanup has run and the API server accepted its delete.
DeferredDeleteAccepted ==
    /\ pc = "done"
    /\ cleanupLog # <<>>
    /\ cleanupLog[Len(cleanupLog)].site = "defer"
    /\ cleanupLog[Len(cleanupLog)].ctx = "cleanup"
    /\ cleanupLog[Len(cleanupLog)].issued

ResultsFrom(i, testType) ==
    {k \in DOMAIN report.TestResults :
        /\ report.TestResults[k].SourcePod = testPods[i].Name
        /\ report.TestResults[k].SourceNode = testPods[i].NodeName
        /\ report.TestResults[k].TestType = testType}

\* C12: when the discovery of the cluster DNS yields no address the run is
\* not aborted: Run returns a report with a nil error, the report has no
\* result of type coredns, and from every pod it has the dns and the
\* external-tcp result, a kubelet result for every other node with an
\* internal IP and a pod-to-pod result for every pod of another name.
C12_NoDNSAddressNoAbort ==
    /\ (pc \in {"StartListeners", "RunAllTests", "wg.Wait"} /\ coreDNSIPs = <<>>) =>
        /\ ~ret.returned
        /\ \A r \in AllResults : r.TestType # "coredns"
    /\ (ret.hasReport /\ coreDNSIPs = <<>>) =>
        /\ ret.err = "nil"
        /\ \A k \in DOMAIN report.TestResults :
              report.TestResults[k].TestType # "coredns"
        /\ \A i \in DOMAIN testPods :
              /\ Cardinality(ResultsFrom(i, "dns")) = 1
              /\ Cardinality(ResultsFrom(i, "external-tcp")) = 1
              /\ \A nm \in KubeletTargets(testPods[i], nodeIPs) :
                    \E k \in ResultsFrom(i, "kubelet") :
                        report.TestResults[k].Target =
                            Target(nodeIPs[nm], kubeletPort, nm)
              /\ \A j \in PodToPodTargets(testPods[i], testPods) :
                    \E k \in ResultsFrom(i, "pod-to-pod") :
                        report.TestResults[k].Target =
                            Target(testPods[j].PodIP, testListenPort, testPods[j].NodeName)

\* A report of two pods without a coredns result, each pod with its four
\* other probes, comes from a cluster where no DNS address was found.
C12_Witness ==
    /\ pc = "done" /\ ret.hasReport /\ coreDNSIPs = <<>>
    /\ Len(testPods) = 2
    /\ Len(report.TestResults) = 8

\* The results of the report of one type whose SourcePod is the pod name.
ResultsOfPod(podName, testType) ==
    {k \in DOMAIN report.TestResults :
        /\ report.TestResults[k].SourcePod = podName
        /\ report.TestResults[k].TestType = testType}

\* C13: with P provisioned pods and D discovered DNS addresses, the report
\* of a completed run has exactly P x D results of type coredns, one per
\* pair of a source pod and an address, with target address:53, and exactly
\* one dns and one external-tcp result per pod.
C13_ProbeCounts ==
    ret.hasReport =>
        LET P == Len(testPods)
            D == Len(coreDNSIPs)
            coredns == {k \in DOMAIN report.TestResults :
                           report.TestResults[k].TestType = "coredns"}
        IN  /\ Cardinality(coredns) = P * D
            /\ \A i \in DOMAIN testPods :
                  /\ \A d \in DOMAIN coreDNSIPs :
                        Cardinality({k \in ResultsOfPod(testPods[i].Name, "coredns") :
                            report.TestResults[k].Target =
                                Target(coreDNSIPs[d], dnsPort, <<>>)}) = 1
                  /\ Cardinality(ResultsOfPod(testPods[i].Name, "dns")) = 1
                  /\ Cardinality(ResultsOfPod(testPods[i].Name, "external-tcp")) = 1

\* C14: in a cluster without a ready node Run creates no pod, polls no
\* readiness and executes no probe; once the node list is read it returns
\* the error that says so, and on no path a report.
C14_NoReadyNodesFails ==
    ReadyCount = 0 =>
        /\ pc \in {"EnsureNamespace", "CleanupDelete", "CleanupPoll", "ListNodes", "done"}
        /\ created = {} /\ testPods = <<>> /\ listened = {}
        /\ tasks = <<>> /\ results = <<>> /\ execFails = 0
        /\ ~ret.hasReport
        /\ pc = "done" =>
              /\ ret.returned
              /\ ret.err \in {"no ready nodes found in cluster",
                               "failed to list nodes", "failed to create namespace"}
              /\ readyNodes = <<>>
              /\ (\E k \in DOMAIN cleanupLog : cleanupLog[k].site = "pre")
                   => ret.err # "failed to create namespace"

\* Run has returned the error from a cluster of three nodes none of which
\* is ready.
C14_Witness ==
    /\ pc = "done"
    /\ ret.err = "no ready nodes found in cluster"
    /\ Len(nodes) = 3

\* C15: in every report Run returns, Summary.Total is the number of entries
\* of TestResults, Summary.Passed the number of those with Success = TRUE,
\* and Passed + Failed = Total.
C15_SummaryMatchesResults ==
    ret.hasReport =>
        LET passed == {k \in DOMAIN report.TestResults : report.TestResults[k].Success}
        IN  /\ report.Summary.Total = Len(report.TestResults)
            /\ report.Summary.Passed = Cardinality(passed)
            /\ report.Summary.Passed + report.Summary.Failed = report.Summary.Total

\* A report with at least two failed results and a passed one (the context
\* was cancelled while the probes ran).
C15_Witness ==
    /\ pc = "done" /\ ret.hasReport
    /\ report.Summary.Failed >= 2 /\ report.Summary.Passed >= 1
    /\ ctxCancelled

\* C16: when Run returns a report the process exits with the critical
\* status (2) if and only if Summary.Failed > 0, and with success (0) when
\* there is no failure.
C16_ExitContract ==
    (ret.hasReport /\ exitCode # NotExited) =>
        /\ exitCode = ExitCritical <=> report.Summary.Failed > 0
        /\ report.Summary.Failed = 0 => exitCode = ExitOK

\* C16 as amended: when Run returns a report and the write of the report
\* returns no error, the process exits with the critical status if and only
\* if Summary.Failed > 0 and with success when there is no failure; when
\* the write returns an error, or Run returned an error, it exits with the
\* internal-error status (4).
C16_ExitContractWritten ==
    exitCode # NotExited =>
        /\ ~ret.hasReport => written = "none" /\ exitCode = ExitInternalErr
        /\ ret.hasReport =>
              /\ written \in {"ok", "error"}
              /\ written = "error" => exitCode = ExitInternalErr
              /\ written = "ok" =>
                    /\ exitCode = ExitCritical <=> report.Summary.Failed > 0
                    /\ report.Summary.Failed = 0 => exitCode = ExitOK

\* The process has exited with the critical status on a report with a
\* single failed probe.
C16_Witness ==
    /\ exitCode = ExitCritical
    /\ report.Summary.Failed = 1 /\ report.Summary.Passed > 0

\* The verbs that change the state of the control plane. A remote exec is
\* a create of the subresource pods/exec.
WriteVerbs == {"create", "update", "patch", "delete", "deletecollection"}

\* C17: every write Run sends to the control plane names the namespace
\* cluster-probe-nettest or acts inside it; the nodes and the objects of
\* kube-system are read only and are never changed by a step of the run.
C17_WritesConfined ==
    /\ [](\A q \in requests :
            /\ q.verb \in WriteVerbs => q.namespace = testNamespace
            /\ q.namespace # testNamespace => q.verb \in {"get", "list"})
    /\ [][nodes' = nodes /\ kubeSystem' = kubeSystem]_vars

\* A completed run has created the namespace and pods in it, run commands
\* in the pods, deleted the namespace, and read the nodes and kube-system.
C17_Witness ==
    /\ pc = "done" /\ ret.hasReport
    /\ {NamespaceRequest("create"), NamespaceRequest("delete"),
        PodsRequest("create", "pods"), PodsRequest("create", "pods/exec"),
        NodesRequest("list"), KubeSystemRequest("get", "endpoints"),
        KubeSystemRequest("list", "pods")} \subseteq requests

\* Whether the config of the engine disables its check at position i: its
\* Enabled is set to false, or is not set while Ignore.Checks names it.
DisabledInConfig(i) ==
    LET cfg == engine.config
        name == engine.checks[i].name
        enabledField == IF name \in DOMAIN cfg.Checks THEN cfg.Checks[name] ELSE "unset"
    IN  /\ ~cfg.nil
        /\ \/ enabledField = "false"
           \/ enabledField = "unset" /\ name \in Range(cfg.IgnoreChecks)

Appended == {p \in DOMAIN tasks : tasks[p].step = 7}

\* Whether the collection rs is made of the batches of the goroutines in
\* done, each in one piece, and of nothing else: off gives the place of
\* each batch.
MadeOfBatches(rs, done) ==
    \E off \in [done -> 0..Len(rs)] :
        /\ \A p \in done :
              /\ off[p] + Len(tasks[p].res) <= Len(rs)
              /\ SubSeq(rs, off[p] + 1, off[p] + Len(tasks[p].res)) = tasks[p].res
        /\ \A p, q \in done :
              p # q => \/ off[p] + Len(tasks[p].res) <= off[q]
                       \/ off[q] + Len(tasks[q].res) <= off[p]
        /\ \A k \in DOMAIN rs :
              \E p \in done : off[p] < k /\ k <= off[p] + Len(tasks[p].res)

\* C19: under every interleaving of the per-pod tasks, the shared collection
\* is at every moment made of the whole batches of the tasks that have
\* appended, each contiguous, nothing lost and nothing twice; RunAllTests
\* returns only when every task has appended, and what it returns is that
\* collection.
C19_BatchesAppendedAtomically ==
    /\ MadeOfBatches(results, Appended)
    /\ ret.hasReport =>
          /\ Appended = DOMAIN tasks
          /\ report.TestResults = results
          /\ MadeOfBatches(report.TestResults, DOMAIN tasks)

\* Run has returned a report in which the batch of the second pod comes
\* before the batch of the first.
C19_Witness ==
    /\ pc = "done" /\ ret.hasReport
    /\ Len(testPods) = 2
    /\ report.TestResults[1].SourceNode = testPods[2].NodeName
    /\ report.TestResults[Len(report.TestResults)].SourceNode = testPods[1].NodeName

\* The place of a test type in the order of RunPodTests.
KindRank(testType) == CHOOSE i \in DOMAIN TestTypes : TestTypes[i] = testType

\* Whether the test types of rs follow the order of RunPodTests.
InKindOrder(rs) ==
    \A i, j \in DOMAIN rs : i < j => KindRank(rs[i].TestType) <= KindRank(rs[j].TestType)

\* The number of probes of the kind at place rank that pod p has to make.
ProbesDue(p, rank) ==
    CASE rank = 1 -> Len(coreDNSIPs)
      [] rank = 2 -> 1
      [] rank = 3 -> 1
      [] rank = 4 -> Cardinality({n \in DOMAIN nodeIPs : n # testPods[p].NodeName})
      [] rank = 5 -> Cardinality({j \in DOMAIN testPods :
                                     testPods[j].Name # testPods[p].Name})

\* The results of the kind testType that the task of pod p has so far.
ProbesMade(p, testType) ==
    {k \in DOMAIN tasks[p].res : tasks[p].res[k].TestType = testType}

\* C20: within one pod's task the probe kinds run in the order coredns, dns,
\* external-tcp, kubelet, pod-to-pod: a task that is at one kind has made
\* every probe of the earlier kinds and none of a later kind, its results
\* are in that order, and so are the results of each source node in the
\* report.
C20_ProbeKindsInOrder ==
    /\ \A p \in DOMAIN tasks :
          /\ InKindOrder(tasks[p].res)
          /\ \A i \in DOMAIN tasks[p].res :
                KindRank(tasks[p].res[i].TestType) <= tasks[p].step
          /\ \A rank \in DOMAIN TestTypes :
                rank < tasks[p].step =>
                    Cardinality(ProbesMade(p, TestTypes[rank])) = ProbesDue(p, rank)
    /\ ret.hasReport =>
          \A p \in DOMAIN testPods :
              InKindOrder(SelectSeq(report.TestResults,
                  LAMBDA r : r.SourceNode = testPods[p].NodeName))

\* Two tasks are under way at once, one already at the pod-to-pod probes
\* after more than one coredns probe, the other still at an earlier kind
\* with results of its own.
C20_Witness ==
    /\ pc = "wg.Wait"
    /\ Len(coreDNSIPs) > 1
    /\ \E p, q \in DOMAIN tasks :
          /\ tasks[p].step = 5 /\ tasks[p].res # <<>>
          /\ tasks[q].step \in 2..4 /\ tasks[q].res # <<>>

\* A probe has been executed from some pod.
ProbeExecuted == \E p \in DOMAIN tasks : tasks[p].res # <<>>

\* The deferred CleanupTestPods, the last of the run, has been called.
FinalDeleteRequested ==
    \/ cleanup.site = "defer"
    \/ \E k \in DOMAIN cleanupLog : cleanupLog[k].site = "defer"

\* C21: no probe is executed from any pod until every provisioned pod has
\* been observed running and ready (its IP is recorded) and the listener
\* command has been issued to every pod; the final deletion of the
\* namespace is requested only when every per-pod task has finished, and
\* no probe is executed after it.
C21_PhaseOrdering ==
    /\ [](ProbeExecuted =>
            \A i \in DOMAIN testPods :
                /\ testPods[i].PodIP # ""
                /\ testPods[i].Name \in listened)
    /\ [](FinalDeleteRequested => \A p \in DOMAIN tasks : tasks[p].step = 7)
    /\ [][FinalDeleteRequested => tasks' = tasks]_vars

\* Two pods have been probed and the deferred cleanup has sent its delete.
C21_Witness ==
    /\ Len(testPods) = 2
    /\ \A p \in DOMAIN tasks : tasks[p].res # <<>>
    /\ \E k \in DOMAIN cleanupLog : cleanupLog[k].site = "defer" /\ cleanupLog[k].issued

\* Run has returned the error of a failed creation of the namespace or of
\* a pod.
SetupFailed ==
    ret.returned /\ ret.err \in {"failed to create namespace", "failed to create test pods"}

\* C24: when the creation of the namespace or of a pod fails with an error
\* other than AlreadyExists, Run returns an error and no report, no pod has
\* been polled for readiness, no probe has been executed, and
\* CleanupTestPods has been invoked for the exit.
C24_SetupFailureAborts ==
    SetupFailed =>
        /\ ~ret.hasReport
        /\ PodsRequest("get", "pods") \notin requests
        /\ PodsRequest("create", "pods/exec") \notin requests
        /\ tasks = <<>> /\ results = <<>>
        /\ pc = "done" =>
              \E k \in DOMAIN cleanupLog : cleanupLog[k].site # "pre"

\* C25: CleanupTestPods asks for the deletion of the namespace with
\* foreground propagation; when the Delete answers NotFound the call
\* returns nil without a poll; after an accepted Delete it polls and returns
\* nil, whether a Get answered NotFound (the namespace is then absent) or
\* the bound elapsed after Gets that answered anything else, an error
\* included; the call returns an error exactly when the Delete itself
\* failed with an error other than NotFound, and then without a poll.
C25_CleanupReturns ==
    LET c == cleanupCall IN
    c.status # "none" =>
        /\ c.propagation = "Foreground"
        /\ NamespaceRequest("delete") \in requests
        /\ c.status = "NotFound" =>
              /\ c.err = "nil" /\ ~c.polled /\ ~c.confirmed
              /\ NamespaceRequest("get") \notin requests
        /\ c.status = "nil" =>
              /\ c.err = "pending" <=> pc = "CleanupTestPods.Poll"
              /\ c.err # "pending" => c.err = "nil" /\ (c.confirmed \/ c.polled)
              /\ c.confirmed => ns = "absent" /\ c.err = "nil"
              /\ c.getError => c.polled
        /\ c.err = "failed to delete namespace" <=> c.status \notin {"nil", "NotFound"}
        /\ c.status \notin {"nil", "NotFound"} =>
              /\ ~c.polled /\ ~c.confirmed /\ ~c.issued
              /\ NamespaceRequest("get") \notin requests

\* The call has returned nil after a poll in which a Get failed and none
\* answered NotFound, with the namespace still there.
C25_Witness ==
    /\ pc = "CleanupTestPods.return"
    /\ cleanupCall.status = "nil" /\ cleanupCall.err = "nil"
    /\ cleanupCall.getError /\ ~cleanupCall.confirmed
    /\ ns = "terminating"

\* The addresses held by the Endpoints object of the service at position
\* k, in the order of its subsets.
AddressesOf(k) ==
    LET ss == kubeSystem.endpoints[k].subsets
        RECURSIVE Cat(_)
        Cat(j) == IF j > Len(ss) THEN <<>> ELSE ss[j] \o Cat(j + 1)
    IN  Cat(1)

\* The services whose Endpoints object the call obtained with at least one
\* address.
ServicesWithAddress ==
    {k \in DOMAIN serviceNames :
        /\ k \in discovered.okGet
        /\ kubeSystem.endpoints[k].found
        /\ AddressesOf(k) # <<>>}

\* Whether a name has the bytes of part somewhere in it.
HasPart(name, part) ==
    \E i \in 1..Len(name) :
        i + Len(part) - 1 <= Len(name) /\ SubSeq(name, i, i + Len(part) - 1) = part

\* The kube-system pods the fallback scan takes: the name contains coredns
\* or kube-dns, the phase is Running, the pod IP is not empty.
FallbackPods ==
    SelectSeq(kubeSystem.pods,
        LAMBDA pod : /\ HasPart(pod.Name, StrCoreDNS) \/ HasPart(pod.Name, StrKubeDNS)
                     /\ pod.Phase = "Running"
                     /\ pod.PodIP # "")

\* C26: the services are tried in the order kube-dns, coredns,
\* rke2-coredns-rke2-coredns, and the call returns exactly the addresses of
\* the first whose Endpoints object (as the Get returned it) has an
\* address, never the addresses of several; the pods of kube-system are
\* listed only when no service yields an address, and the call then
\* returns the IPs of the pods that qualify, in the order of the list.
C26_FirstServiceWins ==
    discovered.called =>
        /\ serviceNames = <<"kube-dns", "coredns", "rke2-coredns-rke2-coredns">>
        /\ ServicesWithAddress # {} =>
              LET first == CHOOSE k \in ServicesWithAddress :
                               \A j \in ServicesWithAddress : k <= j
              IN  /\ discovered.ips = AddressesOf(first)
                  /\ discovered.err = "nil"
                  /\ KubeSystemRequest("list", "pods") \notin requests
        /\ ServicesWithAddress = {} =>
              /\ KubeSystemRequest("list", "pods") \in requests
              /\ discovered.okList => discovered.ips =
                    [i \in DOMAIN FallbackPods |-> FallbackPods[i].PodIP]
              /\ ~discovered.okList => discovered.ips = <<>>

\* The Get of kube-dns failed, coredns and rke2-coredns both have
\* addresses, and the call returned those of coredns.
C26_Witness ==
    /\ discovered.called
    /\ 1 \notin discovered.okGet
    /\ {2, 3} \subseteq ServicesWithAddress
    /\ Len(discovered.ips) = 2

\* C27: the call returns an error only if neither the service endpoints nor
\* the scan of the kube-system pods found an address, and then no address;
\* in every other case it returns no error and a set of addresses that is
\* not empty.
C27_ErrorOnlyWhenNothingFound ==
    discovered.called =>
        LET bySvc == ServicesWithAddress # {}
            byPod == discovered.okList /\ FallbackPods # <<>>
        IN  /\ discovered.err # "nil" <=> ~bySvc /\ ~byPod
            /\ discovered.err # "nil" => discovered.ips = <<>>
            /\ discovered.err = "nil" => discovered.ips # <<>>

\* The call has returned an error on a kube-system namespace whose pods were
\* listed and none qualified, and where an Endpoints object exists without
\* any address.
C27_Witness ==
    /\ discovered.called
    /\ discovered.err = "no CoreDNS pods found"
    /\ discovered.okList /\ kubeSystem.pods # <<>>
    /\ \E k \in discovered.okGet : kubeSystem.endpoints[k].found

\* The results of the report of one test type, and the entries of one
\* severity in a group.
OfType(testType) == {k \in DOMAIN report.TestResults : report.TestResults[k].TestType = testType}
FailedOfType(testType) == {k \in OfType(testType) : ~report.TestResults[k].Success}
EntriesOf(group, severity) == {k \in DOMAIN group.Results : group.Results[k].Severity = severity}

\* The test type a group is for.
GroupType(group) == group.Name[2]

\* The number of Critical entries in the groups from position g on.
RECURSIVE CriticalsFrom(_)
CriticalsFrom(g) ==
    IF g > Len(checkResults) THEN 0
    ELSE Cardinality(EntriesOf(checkResults[g], SeverityCritical)) + CriticalsFrom(g + 1)

\* C28: convertNetworkReport changes nothing but its result, which has one
\* group for each test type that has a result and none for the others, in
\* the order coredns, dns, external-tcp, kubelet, pod-to-pod; a group has
\* one Critical entry for each failed result of its type, so that the
\* Critical entries of all groups number Summary.Failed, one OK entry if
\* its type has no failed result (it has a passed one then), no OK entry
\* otherwise, and no entry of another severity.
C28_ConvertGroups ==
    /\ [](pc = "convertNetworkReport.return" =>
            /\ \A g \in DOMAIN checkResults :
                  LET group == checkResults[g]
                      t == GroupType(group)
                  IN  /\ t \in {"coredns", "dns", "external-tcp", "kubelet", "pod-to-pod"}
                      /\ OfType(t) # {}
                      /\ Cardinality(EntriesOf(group, SeverityCritical))
                            = Cardinality(FailedOfType(t))
                      /\ Cardinality(EntriesOf(group, SeverityOK))
                            = IF FailedOfType(t) = {} THEN 1 ELSE 0
                      /\ Len(group.Results) = Cardinality(EntriesOf(group, SeverityCritical))
                                              + Cardinality(EntriesOf(group, SeverityOK))
            /\ \A t \in {"coredns", "dns", "external-tcp", "kubelet", "pod-to-pod"} :
                  OfType(t) # {} => \E g \in DOMAIN checkResults : GroupType(checkResults[g]) = t
            /\ \A g, h \in DOMAIN checkResults :
                  g < h => KindRank(GroupType(checkResults[g])) < KindRank(GroupType(checkResults[h]))
            /\ CriticalsFrom(1) = report.Summary.Failed)
    /\ [][pc = "convertNetworkReport.call" => report' = report /\ ret' = ret]_vars

\* A report with a passed and a failed result of one type and a passed
\* result of an earlier type has been converted.
C28_Witness ==
    /\ pc = "convertNetworkReport.return"
    /\ Len(checkResults) = 2
    /\ report.Summary.Failed = 1 /\ report.Summary.Passed = 2
    /\ report.TestResults[1].TestType = "kubelet"
    /\ report.TestResults[2].TestType = "dns"

\* WaitForPodsReady has returned: nil, or the error naming a pod.
WaitSucceeded == pc = "WaitForPodsReady.return" /\ ret.err = "nil"
WaitFailed == pc = "WaitForPodsReady.return" /\ ret.err # "nil"

\* Pod i has been found running and ready by a Get.
SeenReady(i) == wait.polls[i].seen.phase # ""

\* C22: the pods are polled one at a time in the order of the list: a pod
\* is polled only when every pod before it has been seen ready, and not
\* before the Get that saw the one before it; when WaitForPodsReady returns
\* an error, the error names the pod being polled, which is the first pod
\* not seen ready, and no pod after it has been polled.
C22_SequentialFailFast ==
    /\ \A i \in DOMAIN wait.polls :
          wait.polls[i].first # -1 =>
              \A j \in 1..(i - 1) :
                  /\ SeenReady(j)
                  /\ wait.polls[j].last <= wait.polls[i].first
    /\ \A i \in DOMAIN wait.polls : SeenReady(i) => wait.polls[i].first # -1
    /\ WaitFailed =>
          /\ ret.subject = testPods[idx].Name
          /\ wait.polls[idx].first # -1
          /\ ~SeenReady(idx)
          /\ \A j \in 1..(idx - 1) : SeenReady(j)
          /\ \A j \in (idx + 1)..Len(testPods) : wait.polls[j].first = -1

\* The wait has failed on the first of two pods, after some time, and the
\* second, although running and ready, has never been polled.
C22_Witness ==
    /\ WaitFailed
    /\ Len(testPods) = 2 /\ idx = 1
    /\ wait.polls[1].last > 0
    /\ \E n \in DOMAIN clusterPods :
          n # testPods[1].Name /\ clusterPods[n].phase = "Running" /\ clusterPods[n].ready

C30_SharedDeadline ==
    /\ wait.now <= readyTimeout
    /\ (WaitFailed /\ ~ctxCancelled) =>
          /\ wait.now = readyTimeout
          /\ wait.polls[idx].first >= 0
          /\ \A j \in 1..(idx - 1) : wait.polls[j].last <= wait.polls[idx].first
          /\ wait.polls[idx].last - wait.polls[idx].first
                <= readyTimeout - wait.polls[idx].first

\* The wait has timed out on the second pod, which was polled for ten
\* seconds only: the first had taken eighty.
C30_Witness ==
    /\ WaitFailed /\ ~ctxCancelled
    /\ idx = 2
    /\ wait.polls[1].last = 80
    /\ wait.polls[2].first = 80
    /\ wait.now = readyTimeout

\* The pods have been found ready and Run has not returned from
\* RunAllTests yet.
InProbePhase == pc \in {"DiscoverCoreDNSPods", "StartListeners", "RunAllTests", "wg.Wait"}

\* Run has returned a report and a nil error and its deferred cleanup has
\* been called with the context of its own.
ReportReturnedAndCleaned ==
    /\ pc = "done"
    /\ ret.hasReport /\ ret.err = "nil"
    /\ \A p \in DOMAIN tasks : tasks[p].step = 7
    /\ cleanupLog # <<>>
    /\ cleanupLog[Len(cleanupLog)].site = "defer"
    /\ cleanupLog[Len(cleanupLog)].ctx = "cleanup"

\* C29: when the caller's context is cancelled after the pods have been
\* found ready, every probe made from then on is recorded as a failed
\* result, every per-pod task ends, Run returns the report with a nil
\* error, and the deferred cleanup runs.
C29_CancelDuringProbes ==
    /\ [][(InProbePhase /\ ctxCancelled) =>
             \A p \in DOMAIN tasks :
                 (p \in DOMAIN tasks' /\ Len(tasks'[p].res) > Len(tasks[p].res)) =>
                     /\ Len(tasks'[p].res) = Len(tasks[p].res) + 1
                     /\ ~tasks'[p].res[Len(tasks'[p].res)].Success
                     /\ tasks'[p].res[Len(tasks'[p].res)].Error = "context canceled"]_vars
    /\ [](ctxCancelled /\ pc = "done" /\ ret.hasReport => ret.err = "nil")
    /\ ((InProbePhase /\ ctxCancelled) ~> ReportReturnedAndCleaned)

\* Run has returned a report with passed and failed results, the failed
\* ones all for the cancelled context, and the cleanup has run.
C29_Witness ==
    /\ ReportReturnedAndCleaned
    /\ ctxCancelled
    /\ report.Summary.Passed > 0
    /\ report.Summary.Failed > 0
    /\ \A k \in DOMAIN report.TestResults :
          ~report.TestResults[k].Success => report.TestResults[k].Error = "context canceled"

====
